---- MODULE Spec2Model ----
(***************************************************************************)
(* Fero: quorum-authorised signing in front of an HSM, with a hash-chained *)
(* audit log.  The model follows fero-server (database/mod.rs, service.rs, *)
(* logging.rs), fero-proto (log.rs) and the device's audit log.            *)
(***************************************************************************)
EXTENDS Integers, Sequences, FiniteSets, TLC

VARIABLES
    secrets,              \* table secrets: sequence of rows, id = position
    users,                \* table users
    user_secret_weights,  \* table user_secret_weights
    fero_logs,            \* table fero_logs
    hsm_logs,             \* table hsm_logs (mirror of the device's audit log)
    devLog,               \* the device's audit log, oldest entry first
    devLogIndex,          \* last index handed to the device by set_log_index
    devKeys,              \* ids of the asymmetric objects on the device
    hsmSignCalls,         \* history: every sign_pkcs1v1_5 call issued, in order
    pc,                   \* position of the server's RPC handler
    rpc,                  \* the request being handled and what the handler computed so far
    response,             \* the last response handed to the sink
    chain,                \* a log auditor's copy of a GetLogs answer
    authIn,               \* last direct input of Configuration::authenticate
    authOut,              \* and its outcome
    bastion,              \* the bastion's last call: what it received and what it sent on
    payloadFile,          \* the file last written by the client's payload commands
    clientReport,         \* what the client's get-logs command last reported
    devAuthKeys,          \* the device's authentication keys: object id -> password
    provCall,             \* the call of provision: its position, arguments and result
    cq,                   \* the completion-queue threads: handler position and request of each
    inflight,             \* requests the clients have sent that no handler has taken yet
    served,               \* history: what the handlers logged, in the order of the log
    logger                \* the calls of log_operation in progress, one per process

vars == <<secrets, users, user_secret_weights, fero_logs, hsm_logs, devLog,
          devLogIndex, devKeys, hsmSignCalls, pc, rpc, response, chain,
          authIn, authOut, bastion, payloadFile, clientReport, devAuthKeys, provCall,
          cq, inflight, served, logger>>

dbVars == <<secrets, users, user_secret_weights, fero_logs, hsm_logs>>
devVars == <<devLog, devLogIndex, devKeys, hsmSignCalls>>

----------------------------------------------------------------------------
(* Bounds of the exploration *)

MaxSigs == 2          \* signatures carried by one identification
MaxFeroLogs == 5      \* rows of fero_logs, the root included
MaxHsmIndex == 4      \* highest index the device's log counter reaches
MaxWeight == 2        \* largest weight / threshold value tried
MaxFirstUseLogs == 3  \* rows of fero_logs a server without any secret is followed for

----------------------------------------------------------------------------
(* Value domains *)

None == {}
Some(x) == {x}
Unwrap(o) == CHOOSE x \in o : TRUE

UserKeyIds == {1, 2, 3}          \* PGP key ids that may be enrolled as users
StrangerKeyId == 4               \* a key holder that is never enrolled
SignerKeyIds == UserKeyIds \cup {StrangerKeyId}
UnknownName == "nosuch"
Weights == (0 - 1) .. MaxWeight
Thresholds == 0 .. (MaxWeight + 1)

Garbage == [kind |-> "garbage", signer |-> 0, over |-> <<>>]
(* A detached OpenPGP signature made by `signer` over the bytes `over`. *)
Sig(k, p) == [kind |-> "sig", signer |-> k, over |-> p]

RECURSIVE SeqsUpTo(_, _)
SeqsUpTo(S, n) ==
    IF n = 0 THEN {<<>>}
    ELSE LET shorter == SeqsUpTo(S, n - 1)
         IN shorter \cup {Append(s, x) : s \in {t \in shorter : Len(t) = n - 1}, x \in S}

Last(s) == s[Len(s)]
Range(s) == {s[i] : i \in 1 .. Len(s)}

(* Vec::pop() on the rows a query loaded: the last one, if any. *)
Pop(rows) == IF rows = <<>> THEN None ELSE Some(Last(rows))

----------------------------------------------------------------------------
(* gpgme over the per-call keyring (database/mod.rs 61-100) *)

(* The keyring of one authenticate call: the key of every user that has a
   weight row for the secret (users INNER JOIN user_secret_weights). *)
applicable_users(usersT, weightsT, secret) ==
    {u.key_id : u \in {r \in Range(usersT) :
        \E w \in Range(weightsT) : w.user_id = r.id /\ w.secret_id = secret.id}}

(* A verifier that accepts a signature whatever text it was made over. *)
verify_detached_any_payload(keyring, sig, payload) ==
    IF sig.kind = "garbage" THEN [err |-> TRUE, fingerprint |-> 0, summary |-> {}]
    ELSE IF sig.signer \notin keyring
         THEN [err |-> FALSE, fingerprint |-> sig.signer, summary |-> {"KEY_MISSING"}]
    ELSE [err |-> FALSE, fingerprint |-> sig.signer, summary |-> {}]

(* A verifier that answers a bad signature with an error, not with a summary. *)
verify_detached_bad_is_error(keyring, sig, payload) ==
    IF sig.kind = "garbage" \/ sig.signer \notin keyring \/ sig.over # payload
    THEN [err |-> TRUE, fingerprint |-> 0, summary |-> {}]
    ELSE [err |-> FALSE, fingerprint |-> sig.signer, summary |-> {}]

(* Context::verify_detached: an error for bytes that are no OpenPGP signature,
   otherwise one signature result with its summary flags. *)
verify_detached(keyring, sig, payload) ==
    IF sig.kind = "garbage" THEN [err |-> TRUE, fingerprint |-> 0, summary |-> {}]
    ELSE IF sig.signer \notin keyring
         THEN [err |-> FALSE, fingerprint |-> sig.signer, summary |-> {"KEY_MISSING"}]
    ELSE IF sig.over # payload
         THEN [err |-> FALSE, fingerprint |-> sig.signer, summary |-> {"RED"}]
    ELSE [err |-> FALSE, fingerprint |-> sig.signer, summary |-> {}]

(* The test at database/mod.rs 81-86 that makes the loop `continue`. *)
summary_skipped(summary) ==
    summary # {} /\ summary # {"GREEN"} /\ summary # {"VALID"}

(* Context::find_key succeeds for the keys of the keyring only. *)
find_key(keyring, fingerprint) ==
    IF fingerprint \in keyring THEN Some(fingerprint) ELSE None

(* The signature loop, database/mod.rs 69-100: the key ids handed to
   ids.insert, in order, or the verifier's error. *)
RECURSIVE collect_ids(_, _, _, _)
collect_ids(keyring, sigs, payload, inserted) ==
    IF sigs = <<>> THEN [err |-> FALSE, inserted |-> inserted]
    ELSE LET v == verify_detached(keyring, Head(sigs), payload)
             key == find_key(keyring, v.fingerprint)
         IN IF v.err THEN [err |-> TRUE, inserted |-> inserted]
            ELSE IF summary_skipped(v.summary) \/ key = None
                 THEN collect_ids(keyring, Tail(sigs), payload, inserted)
            ELSE collect_ids(keyring, Tail(sigs), payload, Append(inserted, Unwrap(key)))

(* The HashSet `ids` after those inserts. *)
hash_set(inserted) == Range(inserted)

(* The weight query of database/mod.rs 104-111 for one signer key id. *)
signer_weight(usersT, weightsT, secret, id) ==
    LET rows == SelectSeq(weightsT, LAMBDA w :
                    /\ w.secret_id = secret.id
                    /\ \E u \in Range(usersT) : u.id = w.user_id /\ u.key_id = id)
    IN IF rows = <<>> THEN 0 ELSE Last(rows).weight

RECURSIVE sum_over(_, _, _, _)
sum_over(usersT, weightsT, secret, ids) ==
    IF ids = {} THEN 0
    ELSE LET id == CHOOSE x \in ids : TRUE
         IN signer_weight(usersT, weightsT, secret, id)
              + sum_over(usersT, weightsT, secret, ids \ {id})

(* A sum that takes every insert, repeated or not. *)
RECURSIVE sum_weights_vec(_, _, _, _)
sum_weights_vec(usersT, weightsT, secret, inserted) ==
    IF inserted = <<>> THEN 0
    ELSE signer_weight(usersT, weightsT, secret, Head(inserted))
           + sum_weights_vec(usersT, weightsT, secret, Tail(inserted))

(* The loop of database/mod.rs 102-112 over the HashSet. *)
sum_weights(usersT, weightsT, secret, inserted) ==
    sum_over(usersT, weightsT, secret, hash_set(inserted))

(* A comparison that wants more than the threshold. *)
meets_threshold_strict(weight, threshold) == weight > threshold

(* The comparison at database/mod.rs 114. *)
meets_threshold(weight, threshold) == weight >= threshold

(* Configuration::authenticate, database/mod.rs 42-123. *)
authenticate(secretsT, usersT, weightsT, ident, payload) ==
    LET found == Pop(SelectSeq(secretsT, LAMBDA s : s.name = ident.secretKeyName))
    IN IF found = None
       THEN [ok |-> FALSE, err |-> "UnknownSecret", weight |-> 0, ids |-> {},
             secret_name |-> ident.secretKeyName, secret_key |-> None]
       ELSE LET secret == Unwrap(found)
                keyring == applicable_users(usersT, weightsT, secret)
                c == collect_ids(keyring, ident.signatures, payload, <<>>)
                weight == sum_weights(usersT, weightsT, secret, c.inserted)
            IN IF c.err
               THEN [ok |-> FALSE, err |-> "VerifierError", weight |-> 0, ids |-> hash_set(c.inserted),
                     secret_name |-> ident.secretKeyName, secret_key |-> None]
               ELSE IF meets_threshold(weight, secret.threshold)
               THEN [ok |-> TRUE, err |-> "none", weight |-> weight, ids |-> hash_set(c.inserted),
                     secret_name |-> ident.secretKeyName, secret_key |-> secret.key_id]
               ELSE [ok |-> FALSE, err |-> "InsufficientWeight", weight |-> weight,
                     ids |-> hash_set(c.inserted), secret_name |-> ident.secretKeyName,
                     secret_key |-> None]

----------------------------------------------------------------------------
(* Integer casts and byte layouts *)

AsU8(x) == x % 256
AsU16(x) == x % 65536
(* `as i32` of a u8/u16 and `as u32` of a non-negative i32 keep the value;
   the model keeps every systick below 2^31. *)
AsI32(x) == x
AsU32(x) == x

U16BE(x) == <<(x \div 256) % 256, x % 256>>
U32BE(x) == <<(x \div 16777216) % 256, (x \div 65536) % 256, (x \div 256) % 256, x % 256>>
(* BigEndian::write_i64 of a non-negative number of seconds below 2^31. *)
I64BE(x) == <<0, 0, 0, 0>> \o U32BE(x)
(* write_i32::<BigEndian>: two's complement.  write_u64::<BigEndian> of an id
   below 2^32. *)
I32BE(x) == IF x >= 0 THEN U32BE(x) ELSE [i \in 1 .. 4 |-> 255 - U32BE((0 - x) - 1)[i]]
U64BE(x) == <<0, 0, 0, 0>> \o U32BE(x)
(* str::as_bytes of the secret names in use. *)
as_bytes(name) ==
    CASE name = "demo" -> <<100, 101, 109, 111>>
      [] name = "pem" -> <<112, 101, 109>>
      [] name = "nosuch" -> <<110, 111, 115, 117, 99, 104>>
      [] name = "" -> <<>>

(* `request_type as u8`, `result as u8`: the declaration order of log.rs 14-39. *)
OperationTypes == <<"Sign", "Threshold", "Weight", "AddSecret", "AddUser">>
OperationTypeByte(t) == (CHOOSE i \in 1 .. Len(OperationTypes) : OperationTypes[i] = t) - 1
OperationResultByte(r) == IF r = "Success" THEN 0 ELSE 1

(* SHA-256 as a collision-free function of the bytes fed to the hasher. *)
Sha256(input) == [sha |-> input]

(* Identification::write_to_bytes / merge_from_bytes: a message whose fields
   all hold their default serialises to no bytes at all. *)
DefaultIdent == [secretKeyName |-> "", secretKeyId |-> 0, signatures |-> <<>>]
write_to_bytes(ident) == IF ident = DefaultIdent THEN <<>> ELSE <<ident>>
merge_from_bytes(bytes) == IF bytes = <<>> THEN DefaultIdent ELSE bytes[1]

----------------------------------------------------------------------------
(* The device's audit log *)

CmdBoot == 0          \* 0x00, written when the device boots
CmdAuthSession == 4   \* 0x04
CmdPutAsymmetric == 69    \* 0x45
CmdSignPkcs1 == 71    \* 0x47
SessionKey == 3       \* the application authkey the server's session uses

DevEntry(index, command, target) ==
    [index |-> index, command |-> command, data_length |-> 32,
     session_key |-> SessionKey, target_key |-> target, second_key |-> 65535,
     result |-> 128 + command, systick |-> 1000 * index, digest |-> <<index, command>>]

DevLastIndex(dev) == IF dev = <<>> THEN 0 ELSE Last(dev).index
DevAppend(dev, command, target) ==
    Append(dev, DevEntry(DevLastIndex(dev) + 1, command, target))

(* Hsm::logs and Hsm::logs_since: the entries the device holds, resp. those
   whose index is above the given one. *)
logs(dev) == dev
logs_since(dev, index) == SelectSeq(dev, LAMBDA e : e.index > index)

----------------------------------------------------------------------------
(* fero-proto/src/log.rs *)

(* A to_bytes that writes second_key before target_key. *)
HsmLogEntry_to_bytes_swapped(e) ==
    U16BE(e.hsm_index) \o <<e.command>> \o U16BE(e.data_length)
      \o U16BE(e.session_key) \o U16BE(e.second_key) \o U16BE(e.target_key)
      \o <<e.result>> \o U32BE(e.systick) \o e.hash

(* HsmLogEntry::to_bytes, log.rs 101-115. *)
HsmLogEntry_to_bytes(e) ==
    U16BE(e.hsm_index) \o <<e.command>> \o U16BE(e.data_length)
      \o U16BE(e.session_key) \o U16BE(e.target_key) \o U16BE(e.second_key)
      \o <<e.result>> \o U32BE(e.systick) \o e.hash

RECURSIVE ConcatBytes(_)
ConcatBytes(entries) ==
    IF entries = <<>> THEN <<>>
    ELSE HsmLogEntry_to_bytes(Head(entries)) \o ConcatBytes(Tail(entries))

(* FeroLogEntry::hash, log.rs 157-181. *)
FeroLogEntry_hash(entry, parent_log_hash) ==
    Sha256(<< <<OperationTypeByte(entry.request_type)>>,
              I64BE(entry.timestamp.seconds),
              <<OperationResultByte(entry.result)>>,
              ConcatBytes(entry.hsm_logs),
              IF entry.identification = None THEN <<>>
              ELSE write_to_bytes(Unwrap(entry.identification)),
              parent_log_hash >>)

(* FeroLogEntry::verify, log.rs 183-193.  Entries are numbered from 0 as in
   the source; the answer names the entry the error reports. *)
RECURSIVE verify_from(_, _)
verify_from(entries, i) ==
    IF i >= Len(entries) THEN [ok |-> TRUE, failed |-> 0]
    ELSE IF FeroLogEntry_hash(entries[i + 1], entries[i].hash) # entries[i + 1].hash
         THEN [ok |-> FALSE, failed |-> i]
    ELSE verify_from(entries, i + 1)

(* A loop that starts one entry late. *)
verify_skip_first(entries) == verify_from(entries, 2)

FeroLogEntry_verify(entries) == verify_from(entries, 1)

(* impl From<fero::HsmLog> for HsmLogEntry, log.rs 63-80. *)
HsmLogEntry_from(log) ==
    [hsm_index |-> AsU16(log.id), command |-> AsU8(log.command),
     data_length |-> AsU16(log.data_length), session_key |-> AsU16(log.session_key),
     target_key |-> AsU16(log.target_key), second_key |-> AsU16(log.second_key),
     result |-> AsU8(log.result), systick |-> log.systick, hash |-> log.hash]

(* impl From<fero::LogEntry> for FeroLogEntry, log.rs 196-219. *)
FeroLogEntry_from(entry) ==
    [request_type |-> entry.operation_type, timestamp |-> entry.timestamp,
     result |-> entry.result, identification |-> entry.ident,
     hsm_logs |-> [i \in 1 .. Len(entry.hsm_logs) |-> HsmLogEntry_from(entry.hsm_logs[i])],
     hash |-> entry.hash]

----------------------------------------------------------------------------
(* The Store: fero-server/src/database/mod.rs and models.rs *)

Ok(v) == [ok |-> TRUE, value |-> v, err |-> "none"]
Err(e) == [ok |-> FALSE, value |-> <<>>, err |-> e]

(* UNIQUE(name), UNIQUE(hsm_id) on secrets and UNIQUE(key_id) on users, as the
   schema migrations declare them. *)
UniqueSecret(secretsT, name, hsm_id) ==
    \A s \in Range(secretsT) : s.name # name /\ s.hsm_id # hsm_id
UniqueUser(usersT, key_id) == \A u \in Range(usersT) : u.key_id # key_id

(* The rowid sqlite gives an inserted row: one above the highest present. *)
NextId(rows) == IF rows = <<>> THEN 1 ELSE Last(rows).id + 1

(* Configuration::insert_secret_key, database/mod.rs 146-154. *)
insert_secret_key(secretsT, hsm_id, key_id, name, threshold) ==
    IF UniqueSecret(secretsT, name, hsm_id)
    THEN Ok(Append(secretsT, [id |-> NextId(secretsT), name |-> name, key_id |-> key_id,
                              hsm_id |-> hsm_id, threshold |-> threshold]))
    ELSE Err("StoreFailure")

(* Configuration::insert_user_key, database/mod.rs 136-144. *)
insert_user_key(usersT, key_id) ==
    IF UniqueUser(usersT, key_id)
    THEN Ok(Append(usersT, [id |-> NextId(usersT), key_id |-> key_id]))
    ELSE Err("StoreFailure")

(* AuthenticatedConnection::get_hsm_key_id, database/mod.rs 238-245. *)
get_hsm_key_id(secretsT, secret_name) ==
    LET found == Pop(SelectSeq(secretsT, LAMBDA s : s.name = secret_name))
    IN IF found = None THEN Err("Secret key deleted while in use?")
       ELSE Ok(AsU16(Unwrap(found).hsm_id))

(* AuthenticatedConnection::get_user_key, database/mod.rs 247-252. *)
get_user_key(usersT, key_id) == Pop(SelectSeq(usersT, LAMBDA u : u.key_id = key_id))

(* An upsert that inserts a row whether or not the pair has one. *)
upsert_always_inserts(secretsT, weightsT, secret_name, user, weight) ==
    LET found == Pop(SelectSeq(secretsT, LAMBDA s : s.name = secret_name))
    IN IF found = None THEN Err("No secret key found")
       ELSE Ok(Append(weightsT, [id |-> NextId(weightsT), user_id |-> user.id,
                                 secret_id |-> Unwrap(found).id, weight |-> weight]))

(* AuthenticatedConnection::upsert_user_key_weight, database/mod.rs 254-287. *)
upsert_user_key_weight(secretsT, weightsT, secret_name, user, weight) ==
    LET found == Pop(SelectSeq(secretsT, LAMBDA s : s.name = secret_name))
    IN IF found = None THEN Err("No secret key found")
       ELSE LET secret == Unwrap(found)
                hit(w) == w.user_id = user.id /\ w.secret_id = secret.id
            IN IF \E w \in Range(weightsT) : hit(w)
               THEN Ok([i \in 1 .. Len(weightsT) |->
                          IF hit(weightsT[i]) THEN [weightsT[i] EXCEPT !.weight = weight]
                          ELSE weightsT[i]])
               ELSE Ok(Append(weightsT, [id |-> NextId(weightsT), user_id |-> user.id,
                                         secret_id |-> secret.id, weight |-> weight]))

(* AuthenticatedConnection::set_secret_key_threshold, database/mod.rs 289-297:
   UPDATE secrets SET threshold = ? WHERE key_id = ?. *)
set_secret_key_threshold(secretsT, secret_key_id, threshold) ==
    Ok([i \in 1 .. Len(secretsT) |->
          IF secretsT[i].key_id = Some(secret_key_id)
          THEN [secretsT[i] EXCEPT !.threshold = threshold]
          ELSE secretsT[i]])

(* A query that takes the entry numbered idx too. *)
fero_logs_from(feroT, idx) == SelectSeq(feroT, LAMBDA e : e.id >= idx)

(* Configuration::fero_logs_since, database/mod.rs 156-164 (ids ascend with
   the position in the table). *)
fero_logs_since(feroT, idx) == SelectSeq(feroT, LAMBDA e : e.id > idx)

(* The rows of a table ordered by ascending hsm_index. *)
RECURSIVE OrderByHsmIndex(_)
OrderByHsmIndex(rowSet) ==
    IF rowSet = {} THEN <<>>
    ELSE LET lowest == CHOOSE r \in rowSet :
                          \A o \in rowSet : r.hsm_index < o.hsm_index
                                            \/ (r.hsm_index = o.hsm_index /\ r.id <= o.id)
         IN <<lowest>> \o OrderByHsmIndex(rowSet \ {lowest})

(* A range query that takes its lower end too. *)
associated_hsm_logs_inclusive(hsmT, fero_log) ==
    OrderByHsmIndex({r \in Range(hsmT) :
        r.hsm_index >= fero_log.hsm_index_start /\ r.hsm_index <= fero_log.hsm_index_end})

(* Configuration::associated_hsm_logs, database/mod.rs 166-175. *)
associated_hsm_logs(hsmT, fero_log) ==
    OrderByHsmIndex({r \in Range(hsmT) :
        r.hsm_index > fero_log.hsm_index_start /\ r.hsm_index <= fero_log.hsm_index_end})

(* Configuration::last_hsm_log_entry, database/mod.rs 177-184. *)
last_hsm_log_entry(hsmT) == Pop(OrderByHsmIndex(Range(hsmT)))

(* Configuration::last_fero_log_entry, database/mod.rs 186-193. *)
last_fero_log_entry(feroT) == Pop(feroT)

(* impl From<libyubihsm::LogEntry> for NewHsmLog, logging.rs 15-32. *)
NewHsmLog(log) ==
    [hsm_index |-> AsI32(log.index), command |-> AsI32(log.command),
     data_length |-> AsI32(log.data_length), session_key |-> AsI32(log.session_key),
     target_key |-> AsI32(log.target_key), second_key |-> AsI32(log.second_key),
     result |-> AsI32(log.result), systick |-> AsI32(log.systick), hash |-> log.digest]

(* Configuration::insert_hsm_logs with last_id, database/mod.rs 195-214: the
   rows get consecutive rowids; the answer is last_insert_rowid() of the
   connection, which is 0 when the connection inserted nothing. *)
insert_hsm_logs(hsmT, new_logs) ==
    LET base == NextId(hsmT) - 1
        rows == [i \in 1 .. Len(new_logs) |->
                    [id |-> base + i] @@ new_logs[i]]
    IN [table |-> hsmT \o rows,
        last_id |-> Some(IF new_logs = <<>> THEN 0 ELSE base + Len(new_logs))]

(* Configuration::insert_fero_log, database/mod.rs 216-224. *)
insert_fero_log(feroT, fero_log) ==
    Append(feroT, [id |-> NextId(feroT)] @@ fero_log)

(* impl Default for NewFeroLog, models.rs 95-118: the root entry; its hash is
   the digest of 32 random bytes. *)
NewFeroLog_default(seed) ==
    [request_type |-> "Sign", timestamp |-> [seconds |-> 0, nanos |-> 0],
     result |-> "Success", hsm_index_start |-> 0, hsm_index_end |-> 0,
     identification |-> None, hash |-> Sha256(<<seed>>)]

----------------------------------------------------------------------------
(* The Log Engine: fero-server/src/logging.rs *)

(* The closure of logging.rs 45-58: a device entry as an HsmLogEntry. *)
HsmLogEntry_of_device(log) ==
    [hsm_index |-> log.index, command |-> log.command, data_length |-> log.data_length,
     session_key |-> log.session_key, target_key |-> log.target_key,
     second_key |-> log.second_key, result |-> log.result, systick |-> log.systick,
     hash |-> log.digest]

(* create_fero_log, logging.rs 34-82; `now` is the reading of Utc::now(). *)
create_fero_log(request_type, result, dev_logs, hsm_index_start, hsm_index_end, parent_entry, identification, now) ==
    LET entry == [request_type |-> request_type, timestamp |-> now, result |-> result,
                  hsm_logs |-> [i \in 1 .. Len(dev_logs) |-> HsmLogEntry_of_device(dev_logs[i])],
                  identification |-> identification, hash |-> <<>>]
    IN [request_type |-> request_type, timestamp |-> now, result |-> result,
        hsm_index_start |-> hsm_index_start, hsm_index_end |-> hsm_index_end,
        identification |-> IF identification = None THEN None
                           ELSE Some(write_to_bytes(Unwrap(identification))),
        hash |-> FeroLogEntry_hash(entry, parent_entry.hash)]

(* A root written on every call. *)
with_root_always(feroT, seed) == insert_fero_log(feroT, NewFeroLog_default(seed))

(* The parent of the entry to write, logging.rs 106-118: the last entry, after
   inserting the root when the table is empty. *)
with_root(feroT, seed) ==
    IF last_fero_log_entry(feroT) = None
    THEN insert_fero_log(feroT, NewFeroLog_default(seed))
    ELSE feroT

(* log_operation, logging.rs 84-133, on a world w (the tables and the device):
   the world it leaves. *)
log_operation(w, request_type, result, identification, now, seed) ==
    LET last == last_hsm_log_entry(w.hsm_logs)
        drained == IF last = None THEN logs(w.devLog)
                   ELSE logs_since(w.devLog, AsU16(Unwrap(last).hsm_index))
        last_hsm_index == IF last = None THEN 0 ELSE Unwrap(last).hsm_index
        inserted == insert_hsm_logs(w.hsm_logs,
                        [i \in 1 .. Len(drained) |-> NewHsmLog(drained[i])])
        new_hsm_index == IF inserted.last_id = None THEN last_hsm_index
                         ELSE Unwrap(inserted.last_id)
        rooted == with_root(w.fero_logs, seed)
        parent_log == Unwrap(last_fero_log_entry(rooted))
        new_fero_log == create_fero_log(request_type, result, drained, last_hsm_index,
                                        new_hsm_index, parent_log, identification, now)
    IN [w EXCEPT !.hsm_logs = inserted.table,
                 !.devLogIndex = AsU16(new_hsm_index),
                 !.fero_logs = insert_fero_log(rooted, new_fero_log)]

----------------------------------------------------------------------------
(* FeroService::get_logs, service.rs 250-304: the wire form of the stored log *)

HsmLog_wire(row) ==
    [id |-> AsU32(row.hsm_index), command |-> AsU32(row.command),
     data_length |-> AsU32(row.data_length), session_key |-> AsU32(row.session_key),
     target_key |-> AsU32(row.target_key), second_key |-> AsU32(row.second_key),
     result |-> AsU32(row.result), systick |-> AsU32(row.systick), hash |-> row.hash]

LogEntry_wire(hsmT, row) ==
    LET assoc == associated_hsm_logs(hsmT, row)
    IN [id |-> row.id, operation_type |-> row.request_type, timestamp |-> row.timestamp,
        result |-> row.result,
        ident |-> IF row.identification = None THEN None
                  ELSE Some(merge_from_bytes(Unwrap(row.identification))),
        hsm_logs |-> [i \in 1 .. Len(assoc) |-> HsmLog_wire(assoc[i])],
        hash |-> row.hash]

get_logs(feroT, hsmT, min_index) ==
    LET rows == fero_logs_since(feroT, min_index)
    IN [i \in 1 .. Len(rows) |-> LogEntry_wire(hsmT, rows[i])]

(* What the client's get-logs command verifies, fero-client/src/main.rs 250-270. *)
client_entries(wire) == [i \in 1 .. Len(wire) |-> FeroLogEntry_from(wire[i])]

----------------------------------------------------------------------------
(* The world the operations act on: the Store's tables and the device *)

World ==
    [secrets |-> secrets, users |-> users, user_secret_weights |-> user_secret_weights,
     fero_logs |-> fero_logs, hsm_logs |-> hsm_logs, devLog |-> devLog,
     devLogIndex |-> devLogIndex, devKeys |-> devKeys]

SetWorld(w) ==
    /\ secrets' = w.secrets
    /\ users' = w.users
    /\ user_secret_weights' = w.user_secret_weights
    /\ fero_logs' = w.fero_logs
    /\ hsm_logs' = w.hsm_logs
    /\ devLog' = w.devLog
    /\ devLogIndex' = w.devLogIndex
    /\ devKeys' = w.devKeys

(* The state provision leaves (local.rs 263-345): an empty migrated database
   and a device that was reset and has booted. *)
FreshWorld ==
    [secrets |-> <<>>, users |-> <<>>, user_secret_weights |-> <<>>,
     fero_logs |-> <<>>, hsm_logs |-> <<>>,
     devLog |-> <<DevEntry(1, CmdBoot, 65535)>>, devLogIndex |-> 0, devKeys |-> {}]

(* The reading of Utc::now() at logging.rs 62: a clock that advances with
   every entry written. *)
Epoch == 1500000000
Now(w) == [seconds |-> Epoch + Len(w.fero_logs), nanos |-> 500]

RootSeeds == {11, 12}
DeploySeeds == {11}      \* the bytes drawn when the deployment below wrote its root

----------------------------------------------------------------------------
(* The Signing Service: fero-server/src/service.rs 184-248, hsm.rs *)

(* A device that signs with the key it is asked for, over bytes of its own. *)
hsm_sign_other_bytes(w, hsm_key, data, sig_type, pgp_key_id, devOk) ==
    [w |-> [w EXCEPT !.devLog = DevAppend(w.devLog, CmdSignPkcs1, hsm_key)],
     calls |-> <<[key |-> hsm_key, data |-> data]>>,
     result |-> IF devOk /\ hsm_key \in w.devKeys
                THEN Ok([sig_type |-> sig_type, key |-> hsm_key, over |-> <<"B">>,
                         signer |-> pgp_key_id])
                ELSE Err("HsmReturnCode")]

(* Session::sign_pkcs1v1_5 as Hsm::create_signature drives it (hsm.rs 38-57):
   the device records the command and signs when it holds the key. *)
hsm_sign(w, hsm_key, data, sig_type, pgp_key_id, devOk) ==
    [w |-> [w EXCEPT !.devLog = DevAppend(w.devLog, CmdSignPkcs1, hsm_key)],
     calls |-> <<[key |-> hsm_key, data |-> data]>>,
     result |-> IF devOk /\ hsm_key \in w.devKeys
                THEN Ok([sig_type |-> sig_type, key |-> hsm_key, over |-> data,
                         signer |-> pgp_key_id])
                ELSE Err("HsmReturnCode")]

(* A signer that serves a PGP request for a secret without key id too. *)
sign_admitted_any_key(w, auth, data, sig_type, devOk) ==
    LET hsm_key == get_hsm_key_id(w.secrets, auth.secret_name)
    IN IF ~hsm_key.ok THEN [w |-> w, calls |-> <<>>, result |-> Err(hsm_key.err)]
       ELSE hsm_sign(w, hsm_key.value, data, sig_type, auth.secret_key, devOk)

(* What FeroService::sign_payload does once authenticate has answered,
   service.rs 231-247. *)
sign_admitted(w, auth, data, sig_type, devOk) ==
    LET hsm_key == get_hsm_key_id(w.secrets, auth.secret_name)
    IN IF ~hsm_key.ok THEN [w |-> w, calls |-> <<>>, result |-> Err(hsm_key.err)]
       ELSE IF sig_type = "PGP"
            THEN IF auth.secret_key = None
                 THEN [w |-> w, calls |-> <<>>,
                       result |-> Err("Tried to use non-PGP key for PGP signature")]
                 ELSE hsm_sign(w, hsm_key.value, data, sig_type, auth.secret_key, devOk)
       ELSE hsm_sign(w, hsm_key.value, data, sig_type, None, devOk)

(* A sign_payload that goes on to the device whatever authenticate answered. *)
sign_payload_unchecked(w, ident, payload, sig_type, devOk) ==
    LET auth == authenticate(w.secrets, w.users, w.user_secret_weights, ident, payload)
    IN [auth |-> auth] @@ sign_admitted(w, auth, payload, sig_type, devOk)

(* FeroService::sign_payload, service.rs 223-248. *)
FeroService_sign_payload(w, ident, payload, sig_type, devOk) ==
    LET auth == authenticate(w.secrets, w.users, w.user_secret_weights, ident, payload)
    IN IF ~auth.ok
       THEN [w |-> w, calls |-> <<>>, result |-> Err(auth.err), auth |-> auth]
       ELSE [auth |-> auth] @@ sign_admitted(w, auth, payload, sig_type, devOk)

(* The canonical payloads of service.rs 194-196 and 209-212: the name's bytes
   followed by the big-endian numbers. *)
ThresholdPayload(ident, threshold) == as_bytes(ident.secretKeyName) \o I32BE(threshold)
WeightPayload(ident, user_key_id, weight) ==
    as_bytes(ident.secretKeyName) \o U64BE(user_key_id) \o I32BE(weight)

(* A set_secret_key_threshold that updates the row whatever authenticate
   answered. *)
set_secret_key_threshold_unauthenticated(w, ident, threshold) ==
    LET auth == authenticate(w.secrets, w.users, w.user_secret_weights, ident,
                             ThresholdPayload(ident, threshold))
        updated == set_secret_key_threshold(w.secrets, ident.secretKeyId, threshold)
    IN [w |-> [w EXCEPT !.secrets = updated.value], calls |-> <<>>,
        result |-> IF auth.ok THEN Ok(<<>>) ELSE Err(auth.err), auth |-> auth]

(* FeroService::set_secret_key_threshold, service.rs 189-201. *)
FeroService_set_secret_key_threshold(w, ident, threshold) ==
    LET auth == authenticate(w.secrets, w.users, w.user_secret_weights, ident,
                             ThresholdPayload(ident, threshold))
        updated == set_secret_key_threshold(w.secrets, ident.secretKeyId, threshold)
    IN IF ~auth.ok
       THEN [w |-> w, calls |-> <<>>, result |-> Err(auth.err), auth |-> auth]
       ELSE [w |-> [w EXCEPT !.secrets = updated.value], calls |-> <<>>,
             result |-> Ok(<<>>), auth |-> auth]

(* FeroService::set_user_key_weight, service.rs 203-221. *)
FeroService_set_user_key_weight(w, ident, user_key_id, weight) ==
    LET auth == authenticate(w.secrets, w.users, w.user_secret_weights, ident,
                             WeightPayload(ident, user_key_id, weight))
        user == get_user_key(w.users, user_key_id)
        upserted == upsert_user_key_weight(w.secrets, w.user_secret_weights,
                                           auth.secret_name, Unwrap(user), weight)
    IN IF ~auth.ok
       THEN [w |-> w, calls |-> <<>>, result |-> Err(auth.err), auth |-> auth]
       ELSE IF user = None
       THEN [w |-> w, calls |-> <<>>, result |-> Err("No such user"), auth |-> auth]
       ELSE IF ~upserted.ok
       THEN [w |-> w, calls |-> <<>>, result |-> Err(upserted.err), auth |-> auth]
       ELSE [w |-> [w EXCEPT !.user_secret_weights = upserted.value], calls |-> <<>>,
             result |-> Ok(<<>>), auth |-> auth]

(* A log that records every operation as done. *)
logged_result_success(operation_result) == "Success"

(* `logged_result`, service.rs 51-54, 99-102, 141-144. *)
logged_result(operation_result) == IF operation_result.ok THEN "Success" ELSE "Failure"

(* The status of a failed call, service.rs 75-78, 117-120, 159-162. *)
failure_status(kind) == IF kind = "Sign" THEN "PermissionDenied" ELSE "InvalidArgument"

----------------------------------------------------------------------------
(* The local administration commands: fero-server/src/local.rs *)

(* Hsm::put_rsa_key, hsm.rs 59-103: the lowest free object id from 1 on. *)
put_rsa_key(w, putOk) ==
    LET object_id == CHOOSE id \in 1 .. (Cardinality(w.devKeys) + 1) :
                        /\ id \notin w.devKeys
                        /\ \A lower \in 1 .. (id - 1) : lower \in w.devKeys
    IN IF putOk
       THEN [w |-> [w EXCEPT !.devKeys = @ \cup {object_id},
                             !.devLog = DevAppend(@, CmdPutAsymmetric, object_id)],
             result |-> Ok(object_id)]
       ELSE [w |-> w, result |-> Err("HsmReturnCode")]

(* import_pgp_secret / import_pem_secret from the key material on,
   local.rs 128-151 and 191-214; key_id is None for a PEM key. *)
import_secret(w, key_id, name, threshold, putOk, seed) ==
    LET put == put_rsa_key(w, putOk)
        stored == insert_secret_key(put.w.secrets, put.result.value, key_id, name, threshold)
        interior_result == IF ~put.result.ok THEN put.result
                           ELSE IF ~stored.ok THEN stored ELSE Ok(<<>>)
        after == IF put.result.ok /\ stored.ok
                 THEN [put.w EXCEPT !.secrets = stored.value]
                 ELSE put.w
    IN [w |-> log_operation(after, "AddSecret", logged_result(interior_result),
                            None, Now(after), seed),
        result |-> interior_result]

(* store_user, local.rs 217-241. *)
store_user(w, key_id, seed) ==
    LET interior_result == insert_user_key(w.users, key_id)
        after == IF interior_result.ok THEN [w EXCEPT !.users = interior_result.value]
                 ELSE w
    IN [w |-> log_operation(after, "AddUser", logged_result(interior_result),
                            None, Now(after), seed),
        result |-> interior_result]

(* set_user_weight, local.rs 243-261. *)
set_user_weight(w, user_key, secret_key_name, weight) ==
    LET user_key_obj == get_user_key(w.users, user_key)
        upserted == upsert_user_key_weight(w.secrets, w.user_secret_weights,
                                           secret_key_name, Unwrap(user_key_obj), weight)
    IN IF user_key_obj = None THEN [w |-> w, result |-> Err("No such user")]
       ELSE IF ~upserted.ok THEN [w |-> w, result |-> upserted]
       ELSE [w |-> [w EXCEPT !.user_secret_weights = upserted.value],
             result |-> Ok(<<>>)]

----------------------------------------------------------------------------
(* Requests the clients send *)

SignPayload == <<"A">>        \* the artifact of the Sign requests
OtherPayload == <<"B">>       \* some other artifact a key holder signed
ThresholdKeyId == 10          \* the PGP key id of the secret "demo"

Ident(name, key_id, sigs) ==
    [secretKeyId |-> key_id, secretKeyName |-> name, signatures |-> sigs]

(* The requests tried by the RPCs.  Signatures: none, user 1 over the
   request's canonical payload, user 1 over another artifact, bytes that are
   no signature. *)
SignRequests ==
    {[name |-> "demo", sigs |-> <<>>, sig_type |-> "PGP"],
     [name |-> "demo", sigs |-> <<Sig(1, SignPayload)>>, sig_type |-> "PGP"],
     [name |-> "demo", sigs |-> <<Sig(1, SignPayload)>>, sig_type |-> "PKCS1V1_5"],
     [name |-> "demo", sigs |-> <<Sig(1, OtherPayload)>>, sig_type |-> "PGP"],
     [name |-> "demo", sigs |-> <<Garbage>>, sig_type |-> "PGP"],
     [name |-> "pem", sigs |-> <<>>, sig_type |-> "PGP"],
     [name |-> "pem", sigs |-> <<>>, sig_type |-> "PKCS1V1_5"],
     [name |-> UnknownName, sigs |-> <<>>, sig_type |-> "PGP"]}

ThresholdRequests ==
    {[name |-> "demo", key_id |-> ThresholdKeyId, threshold |-> t, signed |-> TRUE] :
        t \in {0, 2}}
      \cup {[name |-> "demo", key_id |-> ThresholdKeyId, threshold |-> 2, signed |-> FALSE]}

WeightRequests ==
    {[name |-> "demo", user_key_id |-> u, weight |-> 2, signed |-> TRUE] :
        u \in {1, StrangerKeyId}}
      \cup {[name |-> "demo", user_key_id |-> 1, weight |-> 2, signed |-> FALSE]}

NoAuth ==
    [ok |-> FALSE, err |-> "none", weight |-> 0, ids |-> {}, secret_name |-> "",
     secret_key |-> None]
NoRpc ==
    [kind |-> "none", ident |-> DefaultIdent, payload |-> <<>>, sig_type |-> "PGP",
     threshold |-> 0, user_key_id |-> 0, weight |-> 0, auth |-> NoAuth,
     result |-> Err("none"), logLen |-> 0, calls |-> 0,
     timestamp |-> [seconds |-> 0, nanos |-> 0], min_index |-> 0]
NoResponse == [kind |-> "none", status |-> "OK", payload |-> <<>>]

(* main.rs 199: Environment::new(1), the number of completion-queue threads
   the server polls its calls with. *)
COMPLETION_QUEUES == 1
MaxCq == 2            \* thread slots kept in the state
CqSlots == 1 .. MaxCq
IdleThread == [pc |-> "idle", rpc |-> NoRpc]

(* The processes that may run log_operation on one database and device: the
   server and a local administration command. *)
LogProcs == {"server", "admin"}
IdleLogger ==
    [pc |-> "idle", request_type |-> "Sign", result |-> "Success", last |-> None,
     drained |-> <<>>, last_hsm_index |-> 0, new_hsm_index |-> 0, parent |-> None,
     calls |-> 0]

(* Room for one more entry in fero_logs and in the device's log. *)
CanStart ==
    /\ pc = "idle"
    /\ chain = <<>>
    /\ Len(fero_logs) < MaxFeroLogs
    /\ secrets = <<>> => Len(fero_logs) < MaxFirstUseLogs
    /\ DevLastIndex(devLog) < MaxHsmIndex

provVars == <<devAuthKeys, provCall>>
concVars == <<cq, inflight, served, logger>>
clientVars == <<chain, authIn, authOut, bastion, payloadFile, clientReport, provVars, concVars>>

----------------------------------------------------------------------------
(* The RPC handlers of service.rs 38-164, a statement at a time: the
   operation, the log append, the reply. *)

(* timestamp: the request's timestamp field as the handler reads it
   (service.rs 40-43, 88-91, 129-132). *)
Started(kind, timestamp, ident, payload, sig_type, threshold, user_key_id, weight, out) ==
    /\ rpc' = [kind |-> kind, timestamp |-> timestamp, min_index |-> 0, ident |-> ident, payload |-> payload, sig_type |-> sig_type,
               threshold |-> threshold, user_key_id |-> user_key_id, weight |-> weight,
               auth |-> out.auth, result |-> out.result,
               logLen |-> Len(fero_logs), calls |-> Len(hsmSignCalls)]
    /\ SetWorld(out.w)
    /\ hsmSignCalls' = hsmSignCalls \o out.calls
    /\ pc' = "log"
    /\ UNCHANGED <<response, clientVars>>

(* service.rs 39-49 *)
Fero_sign_payload ==
    /\ CanStart
    /\ \E req \in SignRequests, devOk \in BOOLEAN :
          LET ident == Ident(req.name, 0, req.sigs)
          IN Started("Sign", Now(World), ident, SignPayload, req.sig_type, 0, 0, 0,
                     FeroService_sign_payload(World, ident, SignPayload, req.sig_type, devOk))

(* service.rs 83-97 *)
Fero_set_secret_key_threshold ==
    /\ CanStart
    /\ \E req \in ThresholdRequests :
          LET unsigned == Ident(req.name, req.key_id, <<>>)
              ident == IF req.signed
                       THEN Ident(req.name, req.key_id,
                                  <<Sig(1, ThresholdPayload(unsigned, req.threshold))>>)
                       ELSE unsigned
          IN Started("Threshold", Now(World), ident, <<>>, "PGP", req.threshold, 0, 0,
                     FeroService_set_secret_key_threshold(World, ident, req.threshold))

(* service.rs 124-139 *)
Fero_set_user_key_weight ==
    /\ CanStart
    /\ \E req \in WeightRequests :
          LET unsigned == Ident(req.name, 0, <<>>)
              ident == IF req.signed
                       THEN Ident(req.name, 0,
                                  <<Sig(1, WeightPayload(unsigned, req.user_key_id, req.weight))>>)
                       ELSE unsigned
          IN Started("Weight", Now(World), ident, <<>>, "PGP", 0, req.user_key_id, req.weight,
                     FeroService_set_user_key_weight(World, ident, req.user_key_id, req.weight))

(* A log call that records the time the request carried. *)
logs_request_time(w, r, seed) ==
    log_operation(w, r.kind, logged_result(r.result), Some(r.ident), r.timestamp, seed)

(* service.rs 51-63, 99-111, 141-153: the handler's call of log_operation for
   the request r it has just served.  The entry's time is the clock reading of
   logging.rs 62, taken while the entry is built; the timestamp the handler
   read from the request (service.rs 40-43) does not reach the entry. *)
handler_log_operation(w, r, seed) ==
    log_operation(w, r.kind, logged_result(r.result), Some(r.ident), Now(w), seed)

(* service.rs 51-63, 99-111, 141-153 *)
Fero_log_operation ==
    /\ pc = "log"
    /\ \E seed \in IF fero_logs = <<>> THEN RootSeeds ELSE {0} :
          SetWorld(handler_log_operation(World, rpc, seed))
    /\ pc' = "reply"
    /\ UNCHANGED <<hsmSignCalls, rpc, response, clientVars>>

(* A handler that goes on to its reply when log_operation answered Err. *)
log_failure_ignored ==
    /\ pc = "log"
    /\ pc' = "reply"
    /\ UNCHANGED <<dbVars, devVars, hsmSignCalls, rpc, response, clientVars>>

(* service.rs 63, 111, 153: log_operation answers Err and the handler panics;
   the sink is dropped without a reply.  The Err comes from the first read
   (logging.rs 91-98: nothing was written) or from the last insert
   (logging.rs 130: the device's entries are mirrored and the root, on first
   use, is there, the operation's record is not). *)
Fero_log_operation_panics ==
    /\ pc = "log"
    /\ \E failed \in {"read", "insert"},
          seed \in IF fero_logs = <<>> THEN RootSeeds ELSE {0} :
          LET done == handler_log_operation(World, rpc, seed)
          IN SetWorld(IF failed = "read" THEN World
                      ELSE [done EXCEPT !.fero_logs = with_root(fero_logs, seed)])
    /\ pc' = "panicked"
    /\ UNCHANGED <<hsmSignCalls, rpc, response, clientVars>>

(* service.rs 65-80, 113-121, 155-163 *)
Fero_reply ==
    /\ pc = "reply"
    /\ pc' = "idle"
    /\ rpc' = NoRpc
    /\ response' = IF rpc.result.ok
                   THEN [kind |-> "success", status |-> "OK", payload |-> rpc.result.value]
                   ELSE [kind |-> "fail", status |-> failure_status(rpc.kind),
                         payload |-> <<>>]
    /\ UNCHANGED <<dbVars, devVars, clientVars>>

----------------------------------------------------------------------------
(* The administrator's commands, main.rs 242-292 *)

AddSecretPgp ==
    /\ CanStart
    /\ \E threshold \in {1}, putOk \in BOOLEAN,
          seed \in IF fero_logs = <<>> THEN RootSeeds ELSE {0} :
          SetWorld(import_secret(World, Some(ThresholdKeyId), "demo", threshold,
                                 putOk, seed).w)
    /\ UNCHANGED <<hsmSignCalls, pc, rpc, response, clientVars>>

AddSecretPem ==
    /\ CanStart
    /\ \E seed \in IF fero_logs = <<>> THEN RootSeeds ELSE {0} :
          SetWorld(import_secret(World, None, "pem", 0, TRUE, seed).w)
    /\ UNCHANGED <<hsmSignCalls, pc, rpc, response, clientVars>>

AddUser ==
    /\ CanStart
    /\ \E key_id \in {1, 2}, seed \in IF fero_logs = <<>> THEN RootSeeds ELSE {0} :
          SetWorld(store_user(World, key_id, seed).w)
    /\ UNCHANGED <<hsmSignCalls, pc, rpc, response, clientVars>>

SetUserWeight ==
    /\ pc = "idle"
    /\ \E user_key \in {1}, name \in {"demo"}, weight \in {2} :
          LET out == set_user_weight(World, user_key, name, weight)
          IN out.result.ok /\ SetWorld(out.w)
    /\ UNCHANGED <<hsmSignCalls, pc, rpc, response, clientVars>>

(* Some other command reaches the device (a session is opened, say) while a
   call is being handled, and the device records it; the call's log_operation
   drains it.  A command recorded between two calls is drained by the later
   call in the same way. *)
DeviceActivity ==
    /\ pc = "log"
    /\ DevLastIndex(devLog) < MaxHsmIndex
    /\ devLog' = DevAppend(devLog, CmdAuthSession, SessionKey)
    /\ UNCHANGED <<dbVars, devLogIndex, devKeys, hsmSignCalls, pc, rpc, response, clientVars>>

----------------------------------------------------------------------------
IsWorld(w) ==
    /\ secrets = w.secrets
    /\ users = w.users
    /\ user_secret_weights = w.user_secret_weights
    /\ fero_logs = w.fero_logs
    /\ hsm_logs = w.hsm_logs
    /\ devLog = w.devLog
    /\ devLogIndex = w.devLogIndex
    /\ devKeys = w.devKeys

(* The deployment the runs start from: provision, then add-secret for the
   PGP secret "demo" (object 1 on the device), add-user for key 1 and
   set-user-weight 1 for that user, each done by the command's own code. *)
EnrolledWorld(threshold, seed) ==
    LET w1 == import_secret(FreshWorld, Some(ThresholdKeyId), "demo", threshold, TRUE, seed).w
        w2 == store_user(w1, 1, seed).w
    IN set_user_weight(w2, 1, "demo", 1).w

(* local.rs 40-41: the authentication key a factory-fresh or reset device
   holds. *)
DEFAULT_HSM_AUTHKEY_ID == 1
DEFAULT_HSM_PASSWORD == "password"
FactoryAuthKeys == [id \in {DEFAULT_HSM_AUTHKEY_ID} |-> DEFAULT_HSM_PASSWORD]

(* The passwords given to provision for the admin and the application key. *)
AdminPasswords == {"admin-a", "admin-b"}
AppPasswords == {"app-a", "app-b"}

(* provision has returned Ok (local.rs 344): keys 2 and 3 carry the given
   passwords, the default key is gone. *)
ProvisionedWith(admin, app) ==
    /\ devAuthKeys = [id \in {2, 3} |-> IF id = 2 THEN admin ELSE app]
    /\ provCall = [pc |-> "done", admin |-> admin, app |-> app, result |-> "Ok",
                   created |-> <<2, 3>>]

(* The server has just started: no call handled yet. *)
IdleServer ==
    /\ hsmSignCalls = <<>>
    /\ pc = "idle"
    /\ rpc = NoRpc
    /\ response = NoResponse
    /\ chain = <<>>
    /\ authIn = <<>>
    /\ authOut = NoAuth
    /\ bastion = <<>>
    /\ payloadFile = <<>>
    /\ clientReport = "none"
    /\ ProvisionedWith("admin-a", "app-a")
    /\ cq = [t \in CqSlots |-> IdleThread]
    /\ inflight = {}
    /\ served = <<>>
    /\ logger = [p \in LogProcs |-> IdleLogger]

Deployed == \E seed \in DeploySeeds : IsWorld(EnrolledWorld(1, seed))

Init ==
    /\ Deployed
    /\ IdleServer

Next ==
    \/ Fero_sign_payload
    \/ Fero_set_secret_key_threshold
    \/ Fero_set_user_key_weight
    \/ Fero_log_operation
    \/ Fero_reply
    \/ AddSecretPgp
    \/ AddSecretPem
    \/ AddUser
    \/ SetUserWeight
    \/ DeviceActivity

Spec == Init /\ [][Next]_vars

(* The server from its first use on: it starts right after provision, or on
   the enrolled deployment, and serves RPCs; users are added meanwhile. *)
InitRpc ==
    /\ IsWorld(FreshWorld) \/ Deployed
    /\ IdleServer

NextRpc ==
    \/ Fero_sign_payload
    \/ Fero_set_secret_key_threshold
    \/ Fero_set_user_key_weight
    \/ Fero_log_operation
    \/ Fero_log_operation_panics
    \/ Fero_reply
    \/ AddUser
    \/ DeviceActivity

SpecRpc == InitRpc /\ [][NextRpc]_vars

----------------------------------------------------------------------------
(* An auditor fetches the log (GetLogs with min_index 0, converted as the
   client does) and somebody alters stored hashes in the copy before
   FeroLogEntry::verify runs over it. *)

ForgedHash == Sha256(<<99>>)

ClientGetLogs ==
    /\ pc = "idle"
    /\ chain = <<>>
    /\ Len(fero_logs) >= 2
    /\ chain' = client_entries(get_logs(fero_logs, hsm_logs, 0))
    /\ UNCHANGED <<dbVars, devVars, pc, rpc, response, authIn, authOut, bastion, payloadFile, clientReport, provVars, concVars>>

(* The entries (numbered from 0) whose hash differs from the stored one. *)
Tampered ==
    LET stored == client_entries(get_logs(fero_logs, hsm_logs, 0))
    IN {k \in 0 .. (Len(chain) - 1) : chain[k + 1].hash # stored[k + 1].hash}

TamperHash ==
    /\ chain # <<>>
    /\ Cardinality(Tampered) < 2
    /\ \E k \in 1 .. (Len(chain) - 1) :
       \E forged \in {ForgedHash, chain[k].hash} :
          /\ k \notin Tampered
          /\ chain' = [chain EXCEPT ![k + 1].hash = forged]
    /\ UNCHANGED <<dbVars, devVars, pc, rpc, response, authIn, authOut, bastion, payloadFile, clientReport, provVars, concVars>>

NextAudit ==
    \/ Fero_sign_payload
    \/ Fero_log_operation
    \/ Fero_reply
    \/ ClientGetLogs
    \/ TamperHash

SpecAudit == Init /\ [][NextAudit]_vars

----------------------------------------------------------------------------
(* Configuration::authenticate on its own: every small Store and every
   identification up to MaxSigs signatures. *)

OptWeights == {None} \cup {Some(x) : x \in Weights}

(* Two secrets, three users; the weight rows are those whose choice is Some. *)
AuthSecrets(threshold) ==
    <<[id |-> 1, name |-> "demo", key_id |-> Some(ThresholdKeyId), hsm_id |-> 1,
       threshold |-> threshold],
      [id |-> 2, name |-> "pem", key_id |-> None, hsm_id |-> 2, threshold |-> 1]>>

AuthUsers == [i \in 1 .. 3 |-> [id |-> i, key_id |-> i]]

RECURSIVE WeightRows(_, _)
WeightRows(choices, rows) ==
    IF choices = <<>> THEN rows
    ELSE LET c == Head(choices)
         IN WeightRows(Tail(choices),
                IF c.weight = None THEN rows
                ELSE Append(rows, [id |-> NextId(rows), user_id |-> c.user_id,
                                   secret_id |-> c.secret_id, weight |-> Unwrap(c.weight)]))

AuthBlobs ==
    {Sig(k, SignPayload) : k \in SignerKeyIds}
      \cup {Sig(k, OtherPayload) : k \in {1, 2}} \cup {Garbage}

InitAuth ==
    /\ \E threshold \in Thresholds, w1 \in OptWeights, w2 \in OptWeights,
          w3 \in {None, Some(1)}, w3pem \in {None, Some(2)} :
          /\ secrets = AuthSecrets(threshold)
          /\ user_secret_weights =
                WeightRows(<<[user_id |-> 1, secret_id |-> 1, weight |-> w1],
                             [user_id |-> 3, secret_id |-> 2, weight |-> w3pem],
                             [user_id |-> 2, secret_id |-> 1, weight |-> w2],
                             [user_id |-> 3, secret_id |-> 1, weight |-> w3]>>, <<>>)
    /\ users = AuthUsers
    /\ fero_logs = <<>>
    /\ hsm_logs = <<>>
    /\ devLog = FreshWorld.devLog
    /\ devLogIndex = 0
    /\ devKeys = {1, 2}
    /\ IdleServer

AuthenticateCall ==
    /\ authIn = <<>>
    /\ \E name \in {"demo", UnknownName}, sigs \in SeqsUpTo(AuthBlobs, MaxSigs) :
          LET ident == Ident(name, 0, sigs)
          IN /\ authIn' = <<[ident |-> ident, payload |-> SignPayload]>>
             /\ authOut' = authenticate(secrets, users, user_secret_weights, ident, SignPayload)
    /\ UNCHANGED <<dbVars, devVars, pc, rpc, response, chain, bastion, payloadFile, clientReport, provVars, concVars>>

NextAuth == AuthenticateCall

SpecAuth == InitAuth /\ [][NextAuth]_vars

----------------------------------------------------------------------------
(* The earlier crate under src/src: Configuration::authenticate of
   src/src/database/mod.rs 29-96.  It names the secret by its key id, checks
   opaque signatures against the gpg keyring of the host, and looks every
   signer up in users.  Its secrets rows are (id, key_id, threshold). *)

LegacyFail(e) ==
    [ok |-> FALSE, err |-> e, weight |-> 0, ids |-> {}, secret_name |-> "",
     secret_key |-> None]

(* The loop of lines 45-65 for a request carrying at most one signature:
   `data` then holds that signature's text.  find_key(..).unwrap() panics for
   a key the host keyring lacks. *)
legacy_collect_ids(keyring, sigs, payload) ==
    IF sigs = <<>> THEN [err |-> "none", ids |-> {}]
    ELSE LET sig == Head(sigs)
         IN IF sig.kind = "garbage" THEN [err |-> "VerifierError", ids |-> {}]
            ELSE IF sig.over # payload THEN [err |-> "IncorrectPayload", ids |-> {}]
            ELSE IF sig.signer \notin keyring THEN [err |-> "Panic", ids |-> {}]
            ELSE [err |-> "none", ids |-> {sig.signer}]

(* The loop of lines 67-87: ok_or("No such user key") for a signer that is
   not in users, unwrap_or(0) for one without a weight row. *)
RECURSIVE legacy_sum_weights(_, _, _, _)
legacy_sum_weights(usersT, weightsT, secret, ids) ==
    IF ids = {} THEN [err |-> FALSE, weight |-> 0]
    ELSE LET id == CHOOSE x \in ids : TRUE
             user == Pop(SelectSeq(usersT, LAMBDA u : u.key_id = id))
             rows == SelectSeq(weightsT, LAMBDA w :
                        w.secret_id = secret.id /\ w.user_id = Unwrap(user).id)
             rest == legacy_sum_weights(usersT, weightsT, secret, ids \ {id})
         IN IF user = None \/ rest.err THEN [err |-> TRUE, weight |-> 0]
            ELSE [err |-> FALSE,
                  weight |-> (IF rows = <<>> THEN 0 ELSE Last(rows).weight) + rest.weight]

legacy_authenticate(secretsT, usersT, weightsT, keyring, ident, payload) ==
    LET found == Pop(SelectSeq(secretsT, LAMBDA s : s.key_id = ident.secretKeyId))
    IN IF found = None THEN LegacyFail("UnknownSecret")
       ELSE LET secret == Unwrap(found)
                c == legacy_collect_ids(keyring, ident.signatures, payload)
                sum == legacy_sum_weights(usersT, weightsT, secret, c.ids)
            IN IF c.err # "none" THEN LegacyFail(c.err)
               ELSE IF sum.err THEN LegacyFail("NoSuchUserKey")
               ELSE IF sum.weight >= secret.threshold
               THEN [ok |-> TRUE, err |-> "none", weight |-> sum.weight, ids |-> c.ids,
                     secret_name |-> "", secret_key |-> Some(secret.key_id)]
               ELSE [LegacyFail("InsufficientWeight") EXCEPT !.weight = sum.weight,
                                                              !.ids = c.ids]

(* One secret; users 1, 2 and 3, of whom 3 has no weight row; key 4 belongs
   to nobody in users. *)
InitLegacy ==
    /\ \E threshold \in Thresholds, w1 \in OptWeights, w2 \in OptWeights :
          /\ secrets = <<[id |-> 1, key_id |-> ThresholdKeyId, threshold |-> threshold]>>
          /\ user_secret_weights =
                WeightRows(<<[user_id |-> 1, secret_id |-> 1, weight |-> w1],
                             [user_id |-> 2, secret_id |-> 1, weight |-> w2]>>, <<>>)
    /\ users = AuthUsers
    /\ fero_logs = <<>>
    /\ hsm_logs = <<>>
    /\ devLog = FreshWorld.devLog
    /\ devLogIndex = 0
    /\ devKeys = {1}
    /\ IdleServer

LegacyAuthenticateCall ==
    /\ authIn = <<>>
    /\ \E key_id \in {ThresholdKeyId, 0}, sigs \in SeqsUpTo(AuthBlobs, 1),
          keyring \in {SignerKeyIds, UserKeyIds} :
          LET ident == Ident("", key_id, sigs)
          IN /\ authIn' = <<[ident |-> ident, payload |-> SignPayload, keyring |-> keyring]>>
             /\ authOut' = legacy_authenticate(secrets, users, user_secret_weights,
                                               keyring, ident, SignPayload)
    /\ UNCHANGED <<dbVars, devVars, pc, rpc, response, chain, bastion, payloadFile, clientReport, provVars, concVars>>

NextLegacy == LegacyAuthenticateCall

SpecLegacy == InitLegacy /\ [][NextLegacy]_vars

----------------------------------------------------------------------------
(* What the properties below speak of, read off the tables directly *)

NamedSecrets(name) == {s \in Range(secrets) : s.name = name}

HasWeightRow(k, sid) ==
    \E u \in Range(users), w \in Range(user_secret_weights) :
        u.key_id = k /\ w.user_id = u.id /\ w.secret_id = sid

StoredWeight(k, sid) ==
    LET rows == {w \in Range(user_secret_weights) :
                    w.secret_id = sid /\ \E u \in Range(users) : u.id = w.user_id /\ u.key_id = k}
    IN IF rows = {} THEN 0 ELSE (CHOOSE w \in rows : TRUE).weight

RECURSIVE SumStored(_, _)
SumStored(ks, sid) ==
    IF ks = {} THEN 0
    ELSE LET k == CHOOSE x \in ks : TRUE
         IN StoredWeight(k, sid) + SumStored(ks \ {k}, sid)

(* A signature verifies when it is a signature over the payload made with a
   key the call's keyring holds, i.e. a key of a user with a weight row. *)
Verifies(sig, payload, sid) ==
    sig.kind = "sig" /\ sig.over = payload /\ HasWeightRow(sig.signer, sid)

VerifiedSigners(sigs, payload, sid) ==
    {sigs[i].signer : i \in {j \in DOMAIN sigs : Verifies(sigs[j], payload, sid)}}

Verifiable(sigs) == \A i \in DOMAIN sigs : sigs[i].kind = "sig"

QuorumMet(ident, payload) ==
    LET named == NamedSecrets(ident.secretKeyName)
    IN /\ named # {}
       /\ Verifiable(ident.signatures)
       /\ LET s == CHOOSE x \in named : TRUE
          IN SumStored(VerifiedSigners(ident.signatures, payload, s.id), s.id) >= s.threshold

TheSecret(name) == CHOOSE x \in NamedSecrets(name) : TRUE

Outcome(auth) == [ok |-> auth.ok, err |-> auth.err, weight |-> auth.weight]

----------------------------------------------------------------------------
(* C1: authenticate admits exactly when the stored weights of the distinct
   verified signers sum to at least the secret's threshold; with a known
   secret and verifiable signatures every other outcome is the
   insufficient-weight error. *)
C1_AdmitIffQuorum ==
    authIn # <<>> =>
        LET ident == authIn[1].ident
            payload == authIn[1].payload
        IN (NamedSecrets(ident.secretKeyName) # {} /\ Verifiable(ident.signatures)) =>
              LET s == TheSecret(ident.secretKeyName)
                  sum == SumStored(VerifiedSigners(ident.signatures, payload, s.id), s.id)
              IN /\ authOut.ok <=> sum >= s.threshold
                 /\ authOut.weight = sum
                 /\ ~authOut.ok => authOut.err = "InsufficientWeight"

(* Two distinct signers whose weights sum exactly to a threshold of 2 or more. *)
C1_Witness ==
    /\ authIn # <<>>
    /\ authOut.ok
    /\ Cardinality(authOut.ids) = 2
    /\ authOut.weight = TheSecret("demo").threshold
    /\ authOut.weight >= 2

(* C8: a secret of threshold 0 admits every request whose signature list is
   empty or holds only signatures that do not verify; a list holding bytes
   the verifier cannot process fails with the verifier's error whatever the
   threshold. *)
C8_ThresholdZeroAdmits ==
    authIn # <<>> =>
        LET ident == authIn[1].ident
            payload == authIn[1].payload
            sigs == ident.signatures
        IN NamedSecrets(ident.secretKeyName) # {} =>
              LET s == TheSecret(ident.secretKeyName)
              IN /\ ~Verifiable(sigs) => (~authOut.ok /\ authOut.err = "VerifierError")
                 /\ (/\ s.threshold = 0
                     /\ Verifiable(sigs)
                     /\ \A i \in DOMAIN sigs : ~Verifies(sigs[i], payload, s.id))
                       => authOut.ok

(* Threshold 0 and two signatures, neither of which verifies: admitted. *)
C8_Witness ==
    /\ authIn # <<>>
    /\ authIn[1].ident.secretKeyName = "demo"
    /\ TheSecret("demo").threshold = 0
    /\ authIn[1].ident.signatures = <<Sig(1, OtherPayload), Sig(StrangerKeyId, SignPayload)>>
    /\ authOut.ok

(* C8 as stated: threshold 0 admits whatever the list holds, be it empty,
   signatures that do not verify, or bytes the verifier cannot process. *)
C8_AdmitsWhateverTheListHolds ==
    authIn # <<>> =>
        LET ident == authIn[1].ident
            payload == authIn[1].payload
            sigs == ident.signatures
        IN NamedSecrets(ident.secretKeyName) # {} =>
              LET s == TheSecret(ident.secretKeyName)
              IN (/\ s.threshold = 0
                  /\ \A i \in DOMAIN sigs : ~Verifies(sigs[i], payload, s.id))
                    => authOut.ok

(* The blobs of a list, each kept at its first place only. *)
RECURSIVE Dedup(_, _)
Dedup(sigs, seen) ==
    IF sigs = <<>> THEN <<>>
    ELSE IF Head(sigs) \in seen THEN Dedup(Tail(sigs), seen)
    ELSE <<Head(sigs)>> \o Dedup(Tail(sigs), seen \cup {Head(sigs)})

(* C9: a signer's signature supplied several times yields the sum, and the
   outcome, of the request that supplies it once. *)
C9_DuplicatesCountOnce ==
    authIn # <<>> =>
        LET ident == authIn[1].ident
            once == [ident EXCEPT !.signatures = Dedup(ident.signatures, {})]
        IN Outcome(authOut) =
             Outcome(authenticate(secrets, users, user_secret_weights, once, authIn[1].payload))

(* The same signature of a weight-1 signer twice, threshold 2: rejected with
   a sum of 1. *)
C9_Witness ==
    /\ authIn # <<>>
    /\ authIn[1].ident.signatures = <<Sig(1, SignPayload), Sig(1, SignPayload)>>
    /\ TheSecret("demo").threshold = 2
    /\ StoredWeight(1, 1) = 1
    /\ ~authOut.ok
    /\ authOut.weight = 1

(* C10: a valid signature of a signer that is not in users, or that has no
   weight row for the named secret, adds 0 and does not make authenticate
   fail: the outcome is that of the request without the signature.  Stated
   for Configuration::authenticate of fero-server. *)
C10_ServerIgnoresUnweightedSigner ==
    authIn # <<>> =>
        LET ident == authIn[1].ident
            payload == authIn[1].payload
            sid == IF NamedSecrets(ident.secretKeyName) = {} THEN 0
                   ELSE TheSecret(ident.secretKeyName).id
            unweighted(g) == g.kind = "sig" /\ g.over = payload /\ ~HasWeightRow(g.signer, sid)
            without == [ident EXCEPT !.signatures = SelectSeq(@, LAMBDA g : ~unweighted(g))]
        IN Outcome(authOut) =
             Outcome(authenticate(secrets, users, user_secret_weights, without, payload))

(* C10 for Configuration::authenticate of the earlier crate, secrets being
   named by key id there. *)
C10_LegacyIgnoresUnweightedSigner ==
    authIn # <<>> =>
        LET ident == authIn[1].ident
            payload == authIn[1].payload
            keyring == authIn[1].keyring
            found == {s \in Range(secrets) : s.key_id = ident.secretKeyId}
            sid == IF found = {} THEN 0 ELSE (CHOOSE s \in found : TRUE).id
            unweighted(g) == /\ g.kind = "sig" /\ g.over = payload /\ g.signer \in keyring
                             /\ ~HasWeightRow(g.signer, sid)
            without == [ident EXCEPT !.signatures = SelectSeq(@, LAMBDA g : ~unweighted(g))]
        IN Outcome(authOut) =
             Outcome(legacy_authenticate(secrets, users, user_secret_weights, keyring,
                                         without, payload))

(* The earlier crate refuses a threshold-0 request over a valid signature of
   a key that is in nobody's users row. *)
C10_LegacyRefusal ==
    /\ authIn # <<>>
    /\ authIn[1].ident.signatures = <<Sig(StrangerKeyId, SignPayload)>>
    /\ authIn[1].ident.secretKeyId = ThresholdKeyId
    /\ secrets[1].threshold = 0
    /\ ~authOut.ok
    /\ authOut.err = "NoSuchUserKey"

(* fero-server admits on the weight of user 1 a request that also carries a
   valid signature of user 3, who has weight for "pem" only. *)
C10_ServerWitness ==
    /\ authIn # <<>>
    /\ authIn[1].ident.signatures = <<Sig(3, SignPayload), Sig(1, SignPayload)>>
    /\ HasWeightRow(3, 2)
    /\ ~HasWeightRow(3, 1)
    /\ TheSecret("demo").threshold >= 1
    /\ authOut.ok
    /\ authOut.ids = {1}

----------------------------------------------------------------------------
(* C2: in the Sign RPC a sign_pkcs1v1_5 call is issued only for a request
   whose quorum is met, on the named secret's device key and over the
   request's payload; a request whose quorum is not met issues no call,
   fails, and is answered without signature bytes. *)
C2_SignOnlyAfterAdmit ==
    [][/\ hsmSignCalls' # hsmSignCalls =>
            /\ pc = "idle" /\ pc' = "log" /\ rpc'.kind = "Sign"
            /\ QuorumMet(rpc'.ident, rpc'.payload)
            /\ hsmSignCalls' =
                 Append(hsmSignCalls,
                        [key |-> TheSecret(rpc'.ident.secretKeyName).hsm_id,
                         data |-> rpc'.payload])
       /\ (pc = "idle" /\ pc' = "log" /\ rpc'.kind = "Sign"
             /\ ~QuorumMet(rpc'.ident, rpc'.payload)) =>
            /\ hsmSignCalls' = hsmSignCalls
            /\ ~rpc'.result.ok
       /\ (pc = "reply" /\ pc' = "idle" /\ rpc.kind = "Sign"
             /\ ~QuorumMet(rpc.ident, rpc.payload)) =>
            /\ response'.kind = "fail"
            /\ response'.status = "PermissionDenied"
            /\ response'.payload = <<>>
            /\ Len(hsmSignCalls) = rpc.calls
      ]_vars

(* An admitted Sign has reached the device; then a Sign without any
   signature, against a threshold of 1, was refused. *)
C2_Witness ==
    /\ Len(hsmSignCalls) = 1
    /\ hsmSignCalls[1] = [key |-> 1, data |-> SignPayload]
    /\ TheSecret("demo").threshold = 1
    /\ response.status = "PermissionDenied"
    /\ pc = "idle"
    /\ Last(fero_logs).request_type = "Sign"
    /\ Last(fero_logs).result = "Failure"
    /\ Last(fero_logs).identification = Some(write_to_bytes(Ident("demo", 0, <<>>)))

(* The entry of C3: a handled Sign, SetThreshold or SetWeight RPC has, when
   its response is sent, appended exactly one entry (and the root before it on first
   use) of the RPC's operation type, with result Success exactly when the
   operation returned Ok, carrying the request's identification with all its
   signatures; no entry is written before the operation is over nor after the
   response, and a handler that panicked in log_operation sends none. *)
C3_Logged ==
    /\ pc = "log" => Len(fero_logs) = rpc.logLen
    /\ pc = "panicked" =>
          \/ Len(fero_logs) = rpc.logLen
          \/ /\ rpc.logLen = 0
             /\ Len(fero_logs) = 1
             /\ fero_logs[1].identification = None
    /\ pc = "reply" =>
          LET e == Last(fero_logs)
          IN /\ Len(fero_logs) = rpc.logLen + 1 + (IF rpc.logLen = 0 THEN 1 ELSE 0)
             /\ e.id = Len(fero_logs)
             /\ e.request_type = rpc.kind
             /\ (e.result = "Success") <=> rpc.result.ok
             /\ (e.result = "Failure") <=> ~rpc.result.ok
             /\ ~rpc.auth.ok => e.result = "Failure"
             /\ (rpc.kind = "Sign" /\ ~QuorumMet(rpc.ident, rpc.payload)) => e.result = "Failure"
             /\ e.identification # None
             /\ merge_from_bytes(Unwrap(e.identification)) = rpc.ident

(* C3: every handled RPC leaves the one entry C3_Logged describes, written
   after the operation and before the response is sent. *)
C3_OneEntryPerRpc ==
    []C3_Logged
      /\ [][/\ response' # response => (pc = "reply" /\ fero_logs' = fero_logs)
            /\ (pc = "idle" /\ pc' = "log") => fero_logs' = fero_logs
           ]_vars

(* The first RPC a server ever handles, a Sign with a signature for a secret
   that does not exist: root and Failure entry are there before the reply. *)
C3_Witness ==
    /\ pc = "reply"
    /\ rpc.logLen = 0
    /\ Len(fero_logs) = 2
    /\ rpc.kind = "Sign"
    /\ Last(fero_logs).result = "Failure"

(* An admitted SetThreshold is logged as Success with its signature. *)
C3_WitnessSuccess ==
    /\ pc = "reply"
    /\ rpc.kind = "Threshold"
    /\ rpc.result.ok
    /\ Last(fero_logs).result = "Success"
    /\ merge_from_bytes(Unwrap(Last(fero_logs).identification)).signatures # <<>>

----------------------------------------------------------------------------
(* The bytes of a stored hsm_logs row, column by column. *)
RowBytes(r) ==
    U16BE(r.hsm_index) \o <<r.command>> \o U16BE(r.data_length) \o U16BE(r.session_key)
      \o U16BE(r.target_key) \o U16BE(r.second_key) \o <<r.result>> \o U32BE(r.systick)
      \o r.hash

RECURSIVE RowsBytes(_)
RowsBytes(rows) == IF rows = <<>> THEN <<>> ELSE RowBytes(Head(rows)) \o RowsBytes(Tail(rows))

StoredEntry(id) == CHOOSE p \in Range(fero_logs) : p.id = id

ExpectedHash(e) ==
    Sha256(<< <<OperationTypeByte(e.request_type)>>,
              I64BE(e.timestamp.seconds),
              <<OperationResultByte(e.result)>>,
              RowsBytes(associated_hsm_logs(hsm_logs, e)),
              IF e.identification = None THEN <<>> ELSE Unwrap(e.identification),
              StoredEntry(e.id - 1).hash >>)

(* C4: every stored entry but the root carries the SHA-256 of its type byte,
   its seconds as a big-endian i64, its result byte, the bytes of its
   associated HSM rows in ascending index, its identification bytes if any
   and the hash of the entry before it; FeroLogEntry::verify accepts what
   GetLogs(0) returns. *)
C4_HashChain ==
    /\ \A e \in Range(fero_logs) : e.id > 1 => e.hash = ExpectedHash(e)
    /\ fero_logs # <<>> =>
          FeroLogEntry_verify(client_entries(get_logs(fero_logs, hsm_logs, 0))).ok

(* Five entries, the last one a successful Sign that covers two device
   entries, after an entry that covered none. *)
C4_Witness ==
    /\ pc = "reply"
    /\ Len(fero_logs) = 5
    /\ Last(fero_logs).request_type = "Sign"
    /\ Last(fero_logs).result = "Success"
    /\ Len(associated_hsm_logs(hsm_logs, Last(fero_logs))) = 2
    /\ associated_hsm_logs(hsm_logs, fero_logs[4]) = <<>>

(* The record models.rs gives the root: no operation's data, and a hash that
   is the digest of random bytes alone. *)
IsRootEntry(e) ==
    /\ e.timestamp.seconds = 0
    /\ e.identification = None
    /\ e.hsm_index_start = 0 /\ e.hsm_index_end = 0
    /\ \E seed \in RootSeeds \cup DeploySeeds : e.hash = Sha256(<<seed>>)

DenseFromRoot ==
    /\ \A i \in 1 .. Len(fero_logs) : fero_logs[i].id = i
    /\ fero_logs # <<>> => IsRootEntry(fero_logs[1])
    /\ \A i \in 2 .. Len(fero_logs) :
          /\ fero_logs[i].timestamp.seconds > 0
          /\ Len(fero_logs[i].hash.sha) = 6

(* C5: the ids of the stored entries are 1..n, every append takes the id one
   above the highest and leaves the older entries as they are, and id 1 is
   the root: written once, on the first append (alone when that append fails
   after it), and no record of an operation. *)
C5_DenseIdsAndRoot ==
    []DenseFromRoot
      /\ [][fero_logs' # fero_logs =>
              /\ Len(fero_logs') > Len(fero_logs)
              /\ SubSeq(fero_logs', 1, Len(fero_logs)) = fero_logs
              /\ \A i \in (Len(fero_logs) + 1) .. Len(fero_logs') :
                    fero_logs'[i].id = (IF i = 1 THEN 1 ELSE fero_logs'[i - 1].id + 1)
              /\ Len(fero_logs') <= Len(fero_logs) + (IF fero_logs = <<>> THEN 2 ELSE 1)
           ]_vars

(* A server that began with an empty log holds the root and two entries. *)
C5_Witness ==
    /\ secrets = <<>>
    /\ Len(fero_logs) = 3
    /\ IsRootEntry(fero_logs[1])
    /\ fero_logs[3].request_type = "AddUser"
    /\ pc = "idle"

----------------------------------------------------------------------------
(* The entries i >= 1 (numbered from 0) of the auditor's chain whose stored
   hash is not the hash of their content and of the stored hash before them. *)
Mismatched ==
    {i \in 1 .. (Len(chain) - 1) :
        FeroLogEntry_hash(chain[i + 1], chain[i].hash) # chain[i + 1].hash}

Lowest(S) == CHOOSE x \in S : \A y \in S : x <= y

(* C6: verify over a chain of two or more entries fails whenever some entry
   i >= 1 mismatches, and reports the first such entry; a valid chain in
   which the stored hash of entry k >= 1 alone was altered fails at k. *)
C6_VerifyFailsAtFirstMismatch ==
    Len(chain) >= 2 =>
        LET v == FeroLogEntry_verify(chain)
        IN /\ Mismatched = {} => v.ok
           /\ Mismatched # {} => (~v.ok /\ v.failed = Lowest(Mismatched))
           /\ Tampered # {} => (~v.ok /\ v.failed = Lowest(Tampered))

(* Entry 2 of a chain of four was altered, entries 1 and 3 were not: verify
   fails at entry 2. *)
C6_Witness ==
    /\ Len(chain) = 4
    /\ Tampered = {2}
    /\ ~FeroLogEntry_verify(chain).ok
    /\ FeroLogEntry_verify(chain).failed = 2

(* C7: the signatures of a Sign request that were made over another artifact
   are each skipped, their summary being non-empty and neither GREEN nor
   VALID; a request carrying only such signatures has no signer, and against
   a threshold above 0 it is rejected with the insufficient-weight error and
   logged as Failure. *)
C7_WrongArtifactSkipped ==
    (/\ pc \in {"log", "reply"}
     /\ rpc.kind = "Sign"
     /\ NamedSecrets(rpc.ident.secretKeyName) # {}
     /\ rpc.ident.signatures # <<>>
     /\ \A i \in DOMAIN rpc.ident.signatures :
           /\ rpc.ident.signatures[i].kind = "sig"
           /\ rpc.ident.signatures[i].over # rpc.payload) =>
        LET s == TheSecret(rpc.ident.secretKeyName)
            keyring == applicable_users(users, user_secret_weights, s)
        IN /\ \A i \in DOMAIN rpc.ident.signatures :
                 LET v == verify_detached(keyring, rpc.ident.signatures[i], rpc.payload)
                 IN ~v.err /\ v.summary # {} /\ v.summary # {"GREEN"} /\ v.summary # {"VALID"}
           /\ rpc.auth.ids = {}
           /\ rpc.auth.weight = 0
           /\ s.threshold > 0 =>
                 /\ ~rpc.auth.ok
                 /\ rpc.auth.err = "InsufficientWeight"
                 /\ ~rpc.result.ok
                 /\ Len(hsmSignCalls) = rpc.calls
                 /\ pc = "reply" =>
                       /\ Len(fero_logs) = rpc.logLen + 1
                       /\ Last(fero_logs).request_type = "Sign"
                       /\ Last(fero_logs).result = "Failure"

(* User 1, whose weight would meet the threshold of 1, signed artifact B; the
   Sign of artifact A is rejected and logged as Failure. *)
C7_Witness ==
    /\ pc = "reply"
    /\ rpc.kind = "Sign"
    /\ rpc.payload = SignPayload
    /\ rpc.ident.signatures = <<Sig(1, OtherPayload)>>
    /\ TheSecret("demo").threshold = 1
    /\ StoredWeight(1, 1) = 1
    /\ rpc.auth.err = "InsufficientWeight"
    /\ Last(fero_logs).result = "Failure"

----------------------------------------------------------------------------
(* C11: no verified signer lowers the sum: a request that is admitted without
   the signatures of the users whose stored weight for the secret is negative
   is admitted with them too. *)
C11_NegativeWeightNeverLowers ==
    authIn # <<>> =>
        LET ident == authIn[1].ident
            payload == authIn[1].payload
            sid == IF NamedSecrets(ident.secretKeyName) = {} THEN 0
                   ELSE TheSecret(ident.secretKeyName).id
            negative(g) == Verifies(g, payload, sid) /\ StoredWeight(g.signer, sid) < 0
            without == [ident EXCEPT !.signatures = SelectSeq(@, LAMBDA g : ~negative(g))]
        IN authenticate(secrets, users, user_secret_weights, without, payload).ok => authOut.ok

(* Threshold 1, user 1 weighs 1 and user 2 weighs -1: the request signed by
   both is refused with a sum of 0, the one signed by user 1 alone is
   admitted. *)
C11_NegativeWeightSubtracts ==
    /\ authIn # <<>>
    /\ authIn[1].ident.signatures = <<Sig(1, SignPayload), Sig(2, SignPayload)>>
    /\ TheSecret("demo").threshold = 1
    /\ StoredWeight(1, 1) = 1
    /\ StoredWeight(2, 1) = 0 - 1
    /\ ~authOut.ok
    /\ authOut.err = "InsufficientWeight"
    /\ authOut.weight = 0
    /\ authenticate(secrets, users, user_secret_weights,
                    Ident("demo", 0, <<Sig(1, SignPayload)>>), SignPayload).ok

----------------------------------------------------------------------------
(* The administration RPCs on a deployment of two secrets: "demo" (PGP key
   id ThresholdKeyId, threshold 1, user 1 weighs 1) and "pem" (no key id,
   threshold 1, user 2 weighs 1), each enrolled by the command's own code. *)

MaxAdminOps == 2   \* SetThreshold / SetWeight calls followed on that deployment

AdminWorld(seed) ==
    LET w1 == import_secret(EnrolledWorld(1, seed), None, "pem", 1, TRUE, seed).w
        w2 == store_user(w1, 2, seed).w
    IN set_user_weight(w2, 2, "pem", 1).w

InitAdmin ==
    /\ \E seed \in DeploySeeds : IsWorld(AdminWorld(seed))
    /\ IdleServer

AdminOpsLogged ==
    Len(SelectSeq(fero_logs, LAMBDA e : e.request_type \in {"Threshold", "Weight"}))

CanStartAdmin ==
    /\ pc = "idle"
    /\ chain = <<>>
    /\ AdminOpsLogged < MaxAdminOps

(* A key id no secret carries. *)
AbsentKeyId == 0

(* ThresholdRequest: the secret's name, any secretKeyId, a new threshold, and
   one signature over the canonical payload by `signer` (0: unsigned). *)
AnyThresholdRequests ==
    [name : {"demo", "pem"}, key_id : {ThresholdKeyId, AbsentKeyId},
     threshold : {0, 2}, signer : {0, 1, 2}]

(* service.rs 83-97 *)
Fero_set_secret_key_threshold_any ==
    /\ CanStartAdmin
    /\ \E req \in AnyThresholdRequests :
          LET unsigned == Ident(req.name, req.key_id, <<>>)
              ident == IF req.signer = 0 THEN unsigned
                       ELSE Ident(req.name, req.key_id,
                                  <<Sig(req.signer, ThresholdPayload(unsigned, req.threshold))>>)
          IN Started("Threshold", Now(World), ident, <<>>, "PGP", req.threshold, 0, 0,
                     FeroService_set_secret_key_threshold(World, ident, req.threshold))

NextThreshold ==
    \/ Fero_set_secret_key_threshold_any
    \/ Fero_log_operation
    \/ Fero_reply

SpecThreshold == InitAdmin /\ [][NextThreshold]_vars

(* C12: a SetThreshold RPC that answers success for the secret named S and
   the value t leaves the stored threshold of the secret named S equal to t,
   for a secret with a PGP key id and for one without. *)
C12_SuccessStoresThreshold ==
    [][(/\ pc = "reply" /\ pc' = "idle"
        /\ rpc.kind = "Threshold"
        /\ response'.kind = "success")
          => TheSecret(rpc.ident.secretKeyName).threshold = rpc.threshold]_vars

(* User 2, the quorum of "pem", sets its threshold to 0 naming no key id: the
   call is about to answer success and the stored threshold is still 1. *)
C12_PemThresholdUnchanged ==
    /\ pc = "reply"
    /\ rpc.kind = "Threshold"
    /\ rpc.ident.secretKeyName = "pem"
    /\ rpc.ident.secretKeyId = AbsentKeyId
    /\ rpc.threshold = 0
    /\ rpc.auth.ok
    /\ rpc.result.ok
    /\ TheSecret("pem").threshold = 1

(* C13: a SetThreshold call changes nothing but the threshold of the secret
   its identification names, whose quorum authorized it: every other secret
   keeps its row, and no row is added, removed, renamed or re-keyed. *)
C13_OnlyNamedSecretChanges ==
    [][(pc = "idle" /\ pc' = "log" /\ rpc'.kind = "Threshold") =>
          /\ Len(secrets') = Len(secrets)
          /\ \A i \in 1 .. Len(secrets) :
                /\ secrets'[i].id = secrets[i].id
                /\ secrets'[i].name = secrets[i].name
                /\ secrets'[i].hsm_id = secrets[i].hsm_id
                /\ secrets'[i].key_id = secrets[i].key_id
                /\ secrets[i].name # rpc'.ident.secretKeyName => secrets'[i] = secrets[i]]_vars

(* User 2 has weight for "pem" only; a request naming "pem", signed by user 2
   and carrying the key id of "demo" has set the threshold of "demo" to 0. *)
C13_ForeignThresholdChanged ==
    /\ pc = "log"
    /\ AdminOpsLogged = 0
    /\ rpc.kind = "Threshold"
    /\ rpc.ident.secretKeyName = "pem"
    /\ rpc.ident.secretKeyId = ThresholdKeyId
    /\ rpc.auth.ok
    /\ rpc.auth.ids = {2}
    /\ ~HasWeightRow(2, TheSecret("demo").id)
    /\ rpc.threshold = 0
    /\ TheSecret("demo").threshold = 0
    /\ TheSecret("pem").threshold = 1

----------------------------------------------------------------------------
(* SetWeight and set-user-weight on the deployment of two secrets *)

(* WeightRequest: the secret's name, the user's key id, the weight, and one
   signature over the canonical payload by `signer` (0: unsigned). *)
AnyWeightRequests ==
    [name : {"demo", "pem"}, user_key_id : {1, 2, StrangerKeyId}, weight : {0, 2},
     signer : {1, 2}]
      \cup {[name |-> "demo", user_key_id |-> 2, weight |-> 2, signer |-> 0]}

(* service.rs 124-139 *)
Fero_set_user_key_weight_any ==
    /\ CanStartAdmin
    /\ \E req \in AnyWeightRequests :
          LET unsigned == Ident(req.name, 0, <<>>)
              ident == IF req.signer = 0 THEN unsigned
                       ELSE Ident(req.name, 0,
                                  <<Sig(req.signer,
                                        WeightPayload(unsigned, req.user_key_id, req.weight))>>)
          IN Started("Weight", Now(World), ident, <<>>, "PGP", 0, req.user_key_id, req.weight,
                     FeroService_set_user_key_weight(World, ident, req.user_key_id, req.weight))

(* main.rs 242-292: `fero-server set-user-weight`, run between two calls. *)
SetUserWeightAny ==
    /\ CanStartAdmin
    /\ \E req \in {[user |-> 1, name |-> "pem", weight |-> 2],
                   [user |-> 2, name |-> "demo", weight |-> 0]} :
          LET out == set_user_weight(World, req.user, req.name, req.weight)
          IN /\ out.result.ok
             /\ out.w # World
             /\ SetWorld(out.w)
    /\ UNCHANGED <<hsmSignCalls, pc, rpc, response, clientVars>>

NextWeight ==
    \/ Fero_set_user_key_weight_any
    \/ SetUserWeightAny
    \/ Fero_log_operation
    \/ Fero_reply

SpecWeight == InitAdmin /\ [][NextWeight]_vars

(* The weight rows that are not the row of user id u for secret id s. *)
OtherRows(rows, u, s) == {r \in Range(rows) : r.user_id # u \/ r.secret_id # s}

(* At most one weight row for every pair of a user and a secret. *)
OneRowPerPair ==
    \A i, j \in 1 .. Len(user_secret_weights) :
        (/\ user_secret_weights[i].user_id = user_secret_weights[j].user_id
         /\ user_secret_weights[i].secret_id = user_secret_weights[j].secret_id) => i = j

(* C14: a successful SetWeight(S, U, w) leaves w as the stored weight of
   (U, S) and the rows of every other pair as they were; whatever SetWeight
   and set-user-weight calls were made, no pair has two rows. *)
C14_UpsertOneRowPerPair ==
    /\ []OneRowPerPair
    /\ [][(pc = "idle" /\ pc' = "log" /\ rpc'.kind = "Weight" /\ rpc'.result.ok) =>
            LET s == TheSecret(rpc'.ident.secretKeyName)
                u == Unwrap(get_user_key(users, rpc'.user_key_id))
                mine == {r \in Range(user_secret_weights') :
                            r.user_id = u.id /\ r.secret_id = s.id}
            IN /\ \E r \in mine : r.weight = rpc'.weight
               /\ Cardinality(mine) = 1
               /\ OtherRows(user_secret_weights', u.id, s.id)
                     = OtherRows(user_secret_weights, u.id, s.id)
               /\ users' = users
               /\ secrets' = secrets]_vars

(* User 1, the quorum of "demo", has given user 2 the weight 2 for "demo":
   the pair has its one row, holding 2, and the rows of (1, demo) and
   (2, pem) are as the deployment left them. *)
C14_Witness ==
    /\ pc = "log"
    /\ rpc.kind = "Weight"
    /\ rpc.result.ok
    /\ rpc.ident.secretKeyName = "demo"
    /\ rpc.user_key_id = 2
    /\ rpc.weight = 2
    /\ Len(user_secret_weights) = 3
    /\ StoredWeight(2, TheSecret("demo").id) = 2
    /\ StoredWeight(1, TheSecret("demo").id) = 1
    /\ StoredWeight(2, TheSecret("pem").id) = 1

----------------------------------------------------------------------------
(* SetWeight of the earlier crate: src/src/service.rs 53-97 and
   src/src/database/mod.rs 102-160.  It writes no log. *)

(* AuthenticatedConnection::upsert_user_key, src/src/database/mod.rs 102-123. *)
legacy_upsert_user_key(usersT, key_id) ==
    LET found == Pop(SelectSeq(usersT, LAMBDA u : u.key_id = key_id))
        inserted == Append(usersT, [id |-> NextId(usersT), key_id |-> key_id])
    IN IF found # None THEN [users |-> usersT, user |-> Unwrap(found)]
       ELSE [users |-> inserted, user |-> Last(inserted)]

(* AuthenticatedConnection::upsert_user_key_weight, src/src/database/mod.rs
   125-160: the secret is looked up by key id. *)
legacy_upsert_user_key_weight(secretsT, weightsT, secret_key_id, user, weight) ==
    LET found == Pop(SelectSeq(secretsT, LAMBDA s : s.key_id = secret_key_id))
    IN IF found = None THEN Err("No such secret key")
       ELSE LET secret == Unwrap(found)
                hit(w) == w.user_id = user.id /\ w.secret_id = secret.id
            IN IF \E w \in Range(weightsT) : hit(w)
               THEN Ok([i \in 1 .. Len(weightsT) |->
                          IF hit(weightsT[i]) THEN [weightsT[i] EXCEPT !.weight = weight]
                          ELSE weightsT[i]])
               ELSE Ok(Append(weightsT, [id |-> NextId(weightsT), user_id |-> user.id,
                                         secret_id |-> secret.id, weight |-> weight]))

(* FeroService::set_user_key_weight, src/src/service.rs 87-97; the payload
   authenticated is the one byte `weight as u8`. *)
legacy_set_user_key_weight(w, keyring, ident, user_key_id, weight) ==
    LET auth == legacy_authenticate(w.secrets, w.users, w.user_secret_weights, keyring,
                                    ident, <<AsU8(weight)>>)
        upserted == legacy_upsert_user_key(w.users, user_key_id)
        weighted == legacy_upsert_user_key_weight(w.secrets, w.user_secret_weights,
                                                  ident.secretKeyId, upserted.user, weight)
    IN IF ~auth.ok THEN [w |-> w, result |-> Err(auth.err), auth |-> auth]
       ELSE IF ~weighted.ok
       THEN [w |-> [w EXCEPT !.users = upserted.users], result |-> weighted, auth |-> auth]
       ELSE [w |-> [w EXCEPT !.users = upserted.users, !.user_secret_weights = weighted.value],
             result |-> Ok(<<>>), auth |-> auth]

(* Fero::set_user_key_weight, src/src/service.rs 53-79: the call and its
   answer. *)
LegacySetUserKeyWeight ==
    /\ rpc = NoRpc
    /\ \E signer \in {0, 1, 2}, user_key_id \in {1, 3, StrangerKeyId}, weight \in {0, 2} :
          LET sigs == IF signer = 0 THEN <<>> ELSE <<Sig(signer, <<AsU8(weight)>>)>>
              ident == Ident("", ThresholdKeyId, sigs)
              out == legacy_set_user_key_weight(World, SignerKeyIds, ident, user_key_id, weight)
          IN /\ rpc' = [NoRpc EXCEPT !.kind = "Weight", !.ident = ident,
                                     !.user_key_id = user_key_id, !.weight = weight,
                                     !.auth = out.auth, !.result = out.result,
                                     !.logLen = Len(fero_logs)]
             /\ SetWorld(out.w)
             /\ response' = IF out.result.ok
                            THEN [kind |-> "success", status |-> "OK", payload |-> <<>>]
                            ELSE [kind |-> "fail", status |-> "InvalidArgument",
                                  payload |-> <<>>]
    /\ UNCHANGED <<hsmSignCalls, pc, clientVars>>

NextLegacyWeight == LegacySetUserKeyWeight

SpecLegacyWeight == InitLegacy /\ [][NextLegacyWeight]_vars

(* C15: an admitted SetWeight naming a user key id that is not in users
   answers InvalidArgument, adds no user and no weight row, and is logged
   with result Failure.  Stated for the handler of fero-server. *)
C15_ServerUnknownUserRefused ==
    /\ [][(/\ pc = "idle" /\ pc' = "log" /\ rpc'.kind = "Weight" /\ rpc'.auth.ok
           /\ get_user_key(users, rpc'.user_key_id) = None)
             => /\ ~rpc'.result.ok
                /\ users' = users
                /\ user_secret_weights' = user_secret_weights]_vars
    /\ [][(/\ pc = "log" /\ pc' = "reply" /\ rpc.kind = "Weight" /\ rpc.auth.ok
           /\ get_user_key(users, rpc.user_key_id) = None)
             => /\ Last(fero_logs').request_type = "Weight"
                /\ Last(fero_logs').result = "Failure"
                /\ users' = users
                /\ user_secret_weights' = user_secret_weights]_vars
    /\ [][(/\ pc = "reply" /\ pc' = "idle" /\ rpc.kind = "Weight" /\ rpc.auth.ok
           /\ get_user_key(users, rpc.user_key_id) = None)
             => /\ response'.kind = "fail"
                /\ response'.status = "InvalidArgument"
                /\ users' = users
                /\ user_secret_weights' = user_secret_weights]_vars

(* fero-server has refused the admitted request of user 1 to weigh the key
   of a stranger for "demo". *)
C15_ServerWitness ==
    /\ pc = "idle"
    /\ response.kind = "fail"
    /\ response.status = "InvalidArgument"
    /\ Last(fero_logs).request_type = "Weight"
    /\ Last(fero_logs).result = "Failure"
    /\ Last(fero_logs).identification =
         Some(write_to_bytes(Ident("demo", 0,
                <<Sig(1, WeightPayload(Ident("demo", 0, <<>>), StrangerKeyId, 2))>>)))
    /\ get_user_key(users, StrangerKeyId) = None
    /\ Len(user_secret_weights) = 2

(* C15 for the handler of the earlier crate. *)
C15_LegacyUnknownUserRefused ==
    [][(/\ rpc = NoRpc /\ rpc'.kind = "Weight" /\ rpc'.auth.ok
        /\ get_user_key(users, rpc'.user_key_id) = None)
          => /\ response'.kind = "fail"
             /\ response'.status = "InvalidArgument"
             /\ users' = users
             /\ user_secret_weights' = user_secret_weights]_vars

(* The earlier crate has answered success to an admitted request naming the
   key of a stranger, after adding a users row for that key and a weight row
   for it. *)
C15_LegacyCreatesUser ==
    /\ rpc.kind = "Weight"
    /\ rpc.auth.ok
    /\ rpc.user_key_id = StrangerKeyId
    /\ rpc.weight = 2
    /\ response.kind = "success"
    /\ Len(users) = 4
    /\ users[4].key_id = StrangerKeyId
    /\ StoredWeight(StrangerKeyId, 1) = 2
    /\ fero_logs = <<>>

----------------------------------------------------------------------------
(* C16: a request that authenticate rejects is answered PermissionDenied by
   each of Sign, SetThreshold and SetWeight; InvalidArgument answers only a
   failure met after admission. *)
C16_AuthFailureIsPermissionDenied ==
    [][(pc = "reply" /\ pc' = "idle") =>
          /\ ~rpc.auth.ok => (response'.kind = "fail" /\ response'.status = "PermissionDenied")
          /\ response'.status = "InvalidArgument" => rpc.auth.ok]_vars

(* A SetThreshold without signatures for "demo", threshold 1, was refused by
   authenticate, logged as Failure and answered InvalidArgument. *)
C16_ThresholdRefusalInvalidArgument ==
    /\ pc = "idle"
    /\ response.kind = "fail"
    /\ response.status = "InvalidArgument"
    /\ NamedSecrets("demo") # {}
    /\ TheSecret("demo").threshold = 1
    /\ Last(fero_logs).request_type = "Threshold"
    /\ Last(fero_logs).result = "Failure"
    /\ Last(fero_logs).identification =
         Some(write_to_bytes(Ident("demo", ThresholdKeyId, <<>>)))

----------------------------------------------------------------------------
(* C17: an admitted Sign with sig_type PGP succeeds only for a secret that
   carries a key id; for a secret without one it fails with no signing call
   on the device and is logged as Failure.  An admitted Sign with sig_type
   PKCS1V1_5 goes to the device for every secret, with or without key id. *)
C17_PgpNeedsKeyId ==
    /\ [][(pc = "idle" /\ pc' = "log" /\ rpc'.kind = "Sign" /\ rpc'.auth.ok) =>
            LET secret == TheSecret(rpc'.ident.secretKeyName)
                call == [key |-> secret.hsm_id, data |-> rpc'.payload]
            IN /\ (rpc'.sig_type = "PGP" /\ rpc'.result.ok) => secret.key_id # None
               /\ (rpc'.sig_type = "PGP" /\ secret.key_id = None) =>
                     /\ ~rpc'.result.ok
                     /\ hsmSignCalls' = hsmSignCalls
               /\ (rpc'.sig_type = "PGP" /\ secret.key_id # None) =>
                     hsmSignCalls' = Append(hsmSignCalls, call)
               /\ rpc'.sig_type = "PKCS1V1_5" =>
                     /\ hsmSignCalls' = Append(hsmSignCalls, call)
                     /\ rpc'.result.ok =>
                           /\ rpc'.result.value.sig_type = "PKCS1V1_5"
                           /\ rpc'.result.value.key = secret.hsm_id]_vars
    /\ [][(/\ pc = "log" /\ pc' = "reply" /\ rpc.kind = "Sign" /\ rpc.auth.ok
           /\ rpc.sig_type = "PGP"
           /\ TheSecret(rpc.ident.secretKeyName).key_id = None)
             => /\ Last(fero_logs').request_type = "Sign"
                /\ Last(fero_logs').result = "Failure"]_vars

(* "pem" (no key id, threshold 0) was enrolled; a PGP Sign for it was
   admitted, failed without a call to the device and was logged as Failure. *)
C17_Witness ==
    /\ pc = "reply"
    /\ rpc.kind = "Sign"
    /\ rpc.ident.secretKeyName = "pem"
    /\ rpc.sig_type = "PGP"
    /\ rpc.auth.ok
    /\ TheSecret("pem").key_id = None
    /\ rpc.result = Err("Tried to use non-PGP key for PGP signature")
    /\ hsmSignCalls = <<>>
    /\ Last(fero_logs).request_type = "Sign"
    /\ Last(fero_logs).result = "Failure"

(* A PKCS1V1_5 Sign for "pem" was signed by the device with the key of
   "pem". *)
C17_WitnessPkcs1 ==
    /\ pc = "reply"
    /\ rpc.kind = "Sign"
    /\ rpc.ident.secretKeyName = "pem"
    /\ rpc.sig_type = "PKCS1V1_5"
    /\ rpc.result.ok
    /\ hsmSignCalls = <<[key |-> TheSecret("pem").hsm_id, data |-> SignPayload]>>
    /\ Last(fero_logs).result = "Success"

----------------------------------------------------------------------------
(* C18: when the log append of a Sign, SetThreshold or SetWeight call fails,
   the handler panics: the call gets no response, so no signature, and the
   server appends no later entry on top of the missing one.  A reply is only
   ever reached through an appended record. *)
C18_LogFailureIsFatal ==
    [][/\ (pc = "log" /\ pc' = "reply") =>
            /\ Len(fero_logs') > Len(fero_logs)
            /\ Last(fero_logs').request_type = rpc.kind
       /\ (pc = "log" /\ pc' # "log" /\ pc' # "reply") =>
            /\ pc' = "panicked"
            /\ response' = response
            /\ \A i \in (rpc.logLen + 1) .. Len(fero_logs') :
                  i = 1 /\ fero_logs'[i].identification = None
       /\ response' # response => pc = "reply"
       /\ pc = "panicked" =>
            /\ pc' = "panicked"
            /\ response' = response
            /\ fero_logs' = fero_logs
            /\ hsmSignCalls' = hsmSignCalls]_vars

(* The first call the server handles on the enrolled deployment is an
   admitted Sign: the device has made the signature and its entry is
   mirrored, the log append failed at its last insert, and the handler
   panicked with no record written and no response sent. *)
C18_Witness ==
    /\ pc = "panicked"
    /\ rpc.kind = "Sign"
    /\ rpc.result.ok
    /\ Len(hsmSignCalls) = 1
    /\ response = NoResponse
    /\ rpc.logLen > 0
    /\ Len(fero_logs) = rpc.logLen
    /\ hsm_logs # <<>>
    /\ Last(hsm_logs).command = CmdSignPkcs1

----------------------------------------------------------------------------
(* The bastion, src/fero-bastion/src/service.rs: a relay in front of the
   signing server.  It forwards each request to the server and relays the
   answer; for the three mutating methods it first writes its own clock into
   the request's timestamp field. *)

(* What a client may have written into the timestamp field: nothing (the
   protobuf default), an old time, a time the bastion's clock also shows. *)
ClientTimestamps ==
    {[seconds |-> 0, nanos |-> 0], [seconds |-> Epoch - 1000, nanos |-> 7],
     [seconds |-> Epoch + 1, nanos |-> 500]}

(* service.rs 50: the readings Utc::now() may give. *)
BastionClock == {[seconds |-> Epoch + 1, nanos |-> 500], [seconds |-> Epoch + 2, nanos |-> 0]}

(* What the server may answer to a forwarded call. *)
UpstreamReplies ==
    {[kind |-> "success", status |-> "OK", details |-> ""],
     [kind |-> "fail", status |-> "InvalidArgument", details |-> "server"],
     [kind |-> "fail", status |-> "Unavailable", details |-> "transport"]}

(* service.rs 29: the request goes to the server as it came. *)
bastion_call(req) == req

(* A relay that forwards the client's own timestamp. *)
bastion_call_unstamped(req, now) == req

(* service.rs 50-56: seconds and nanoseconds of the bastion's clock replace
   the request's timestamp; the request then goes to the server. *)
bastion_call_with_timestamp(req, now) ==
    [req EXCEPT !.timestamp = [seconds |-> now.seconds, nanos |-> now.nanos]]

(* service.rs 30-41, 57-68: a success is relayed as it is, any error becomes
   PermissionDenied with the method's own message. *)
bastion_reply(up, err_msg) ==
    IF up.kind = "success" THEN up
    ELSE [kind |-> "fail", status |-> "PermissionDenied", details |-> err_msg]

(* What the bastion did with one call: the request it received, its clock
   reading, the request it sent on, the server's answer and the answer it
   relayed. *)
Relayed(method, req, now, sent, up, err_msg) ==
    [method |-> method, now |-> now, received |-> req,
     relayed |-> bastion_reply(up, err_msg), sent |-> sent, upstream |-> up]

(* The bastion holds no state of the signing server. *)
serverVars == <<dbVars, devVars, pc, rpc, response, chain, authIn, authOut, payloadFile, clientReport, provVars, concVars>>

(* service.rs 75-80 *)
FeroBastion_sign_payload ==
    \E r \in SignRequests, ts \in ClientTimestamps, now \in BastionClock, up \in UpstreamReplies :
       LET req == [identification |-> Ident(r.name, 0, r.sigs), payload |-> SignPayload,
                   sig_type |-> r.sig_type, timestamp |-> ts]
       IN /\ bastion' = <<Relayed("sign_payload", req, now, bastion_call_with_timestamp(req, now), up,
                  "Failed to sign payload")>>
          /\ UNCHANGED serverVars

(* service.rs 82-87 *)
FeroBastion_set_secret_key_threshold ==
    \E r \in ThresholdRequests, ts \in ClientTimestamps, now \in BastionClock,
       up \in UpstreamReplies :
       LET unsigned == Ident(r.name, r.key_id, <<>>)
           ident == IF r.signed
                    THEN Ident(r.name, r.key_id, <<Sig(1, ThresholdPayload(unsigned, r.threshold))>>)
                    ELSE unsigned
           req == [identification |-> ident, threshold |-> r.threshold, timestamp |-> ts]
       IN /\ bastion' = <<Relayed("set_secret_key_threshold", req, now, bastion_call_with_timestamp(req, now),
                  up, "Failed to update secret key threshold")>>
          /\ UNCHANGED serverVars

(* service.rs 89-94 *)
FeroBastion_set_user_key_weight ==
    \E r \in WeightRequests, ts \in ClientTimestamps, now \in BastionClock, up \in UpstreamReplies :
       LET unsigned == Ident(r.name, 0, <<>>)
           ident == IF r.signed
                    THEN Ident(r.name, 0, <<Sig(1, WeightPayload(unsigned, r.user_key_id, r.weight))>>)
                    ELSE unsigned
           req == [identification |-> ident, timestamp |-> ts,
                   user_key_id |-> r.user_key_id, weight |-> r.weight]
       IN /\ bastion' = <<Relayed("set_user_key_weight", req, now, bastion_call_with_timestamp(req, now), up,
                  "Failed to update user key weight")>>
          /\ UNCHANGED serverVars

(* service.rs 96-101 *)
FeroBastion_get_logs ==
    \E minIndex \in 0 .. MaxHsmIndex, now \in BastionClock, up \in UpstreamReplies :
       LET req == [minIndex |-> minIndex]
       IN /\ bastion' = <<Relayed("get_logs", req, now, bastion_call(req), up, "Failed to get audit logs")>>
          /\ UNCHANGED serverVars

NextBastion ==
    \/ FeroBastion_sign_payload
    \/ FeroBastion_set_secret_key_threshold
    \/ FeroBastion_set_user_key_weight
    \/ FeroBastion_get_logs

SpecBastion == Init /\ [][NextBastion]_vars

(* C19: for Sign, SetThreshold and SetWeight the bastion sends on the request
   it received with the timestamp field replaced by its own clock reading and
   with every other field as received; a GetLogs request is sent on with no
   field changed. *)
C19_BastionStampsAndForwards ==
    \A i \in 1 .. Len(bastion) :
       LET c == bastion[i]
       IN IF c.method = "get_logs"
          THEN c.sent = c.received
          ELSE /\ c.sent.timestamp = c.now
               /\ DOMAIN c.sent = DOMAIN c.received
               /\ \A f \in DOMAIN c.received \ {"timestamp"} : c.sent[f] = c.received[f]

(* A signed Sign request that carried an old time went through the bastion. *)
C19_Witness ==
    /\ bastion # <<>>
    /\ bastion[1].method = "sign_payload"
    /\ bastion[1].received.timestamp.seconds = Epoch - 1000
    /\ bastion[1].received.identification.signatures # <<>>
    /\ bastion[1].sent.timestamp = bastion[1].now
    /\ bastion[1].sent.identification = bastion[1].received.identification

(* A GetLogs request went through the bastion. *)
C19_WitnessGetLogs ==
    /\ bastion # <<>>
    /\ bastion[1].method = "get_logs"
    /\ bastion[1].received.minIndex > 0
    /\ bastion[1].sent = bastion[1].received

----------------------------------------------------------------------------
(* Requests that reach the signing server without passing the bastion: the
   timestamp field is whatever the client wrote. *)

(* service.rs 39-49, called by a client directly *)
Fero_sign_payload_direct ==
    /\ CanStart
    /\ \E req \in SignRequests, devOk \in BOOLEAN, ts \in ClientTimestamps :
          LET ident == Ident(req.name, 0, req.sigs)
          IN Started("Sign", ts, ident, SignPayload, req.sig_type, 0, 0, 0,
                     FeroService_sign_payload(World, ident, SignPayload, req.sig_type, devOk))

NextDirect ==
    \/ Fero_sign_payload_direct
    \/ Fero_log_operation
    \/ Fero_reply

SpecDirect == Init /\ [][NextDirect]_vars

(* C20: the time in the Fero entry of a request sent directly to the signing
   server is the server's own clock reading, taken when the entry is written:
   it is determined by the server alone, so two direct requests that differ
   only in the timestamp field get entries with the same time. *)
C20_ServerStampsDirectRequests ==
    [][(pc = "log" /\ pc' = "reply")
         => /\ Last(fero_logs').timestamp = Now(World)
            /\ \A ts \in ClientTimestamps :
                  \A seed \in IF fero_logs = <<>> THEN RootSeeds ELSE {0} :
                     LET other == [rpc EXCEPT !.timestamp = ts]
                         entry == Last(handler_log_operation(World, other, seed).fero_logs)
                     IN entry.timestamp = Last(fero_logs').timestamp]_vars

(* A direct Sign request that carried an old time was signed and logged, and
   its entry shows another time than the request did. *)
C20_Witness ==
    /\ pc = "reply"
    /\ rpc.kind = "Sign"
    /\ rpc.result.ok
    /\ rpc.timestamp.seconds = Epoch - 1000
    /\ Len(fero_logs) > rpc.logLen
    /\ Last(fero_logs).timestamp # rpc.timestamp
    /\ Last(fero_logs).timestamp.seconds >= Epoch

----------------------------------------------------------------------------
(* C21: the time stored in the Fero entry of an RPC, and hashed into it, is
   the timestamp the request carried when the signing service received it,
   not a clock reading of the log engine. *)
C21_EntryCarriesRequestTimestamp ==
    (pc = "reply" /\ Len(fero_logs) > rpc.logLen)
       => /\ Last(fero_logs).timestamp = rpc.timestamp
          /\ Last(fero_logs).hash
                = ExpectedHash([Last(fero_logs) EXCEPT !.timestamp = rpc.timestamp])

(* A Sign request that carried an old time was served; its entry holds the
   log engine's clock reading, and its hash is the one over that reading. *)
C21_EngineClockLogged ==
    /\ pc = "reply"
    /\ rpc.kind = "Sign"
    /\ Len(fero_logs) > rpc.logLen
    /\ rpc.timestamp = [seconds |-> Epoch - 1000, nanos |-> 7]
    /\ Last(fero_logs).timestamp = [seconds |-> Epoch + rpc.logLen, nanos |-> 500]
    /\ Last(fero_logs).hash = ExpectedHash(Last(fero_logs))
    /\ Last(fero_logs).hash
          # ExpectedHash([Last(fero_logs) EXCEPT !.timestamp = rpc.timestamp])

----------------------------------------------------------------------------
(* C22: when the signing server answers a forwarded call with an error, the
   bastion hands its client the status code and the details the server
   returned. *)
C22_ErrorsRelayedVerbatim ==
    \A i \in 1 .. Len(bastion) :
       bastion[i].upstream.kind = "fail"
          => /\ bastion[i].relayed.kind = "fail"
             /\ bastion[i].relayed.status = bastion[i].upstream.status
             /\ bastion[i].relayed.details = bastion[i].upstream.details

(* The server refused a forwarded Sign call with InvalidArgument and its own
   details; the bastion's client got PermissionDenied and the bastion's text. *)
C22_ErrorRewritten ==
    /\ bastion # <<>>
    /\ bastion[1].method = "sign_payload"
    /\ bastion[1].upstream = [kind |-> "fail", status |-> "InvalidArgument", details |-> "server"]
    /\ bastion[1].relayed = [kind |-> "fail", status |-> "PermissionDenied",
                             details |-> "Failed to sign payload"]

----------------------------------------------------------------------------
(* The client's threshold and weight commands, fero-client/src/main.rs
   210-249: the payload commands write the bytes the key holders sign, the
   request commands send the request with the signatures made over them. *)

(* main.rs 211-213 *)
client_threshold_payload(secret_key_id, threshold) ==
    U64BE(secret_key_id) \o I32BE(threshold)

(* main.rs 231-234 *)
client_weight_payload(secret_key_id, user_id, weight) ==
    U64BE(secret_key_id) \o U64BE(user_id) \o I32BE(weight)

(* The client has sent no request yet. *)
NothingSent == pc = "idle" /\ response = NoResponse

(* main.rs 210-217 *)
FeroCommand_ThresholdPayload ==
    /\ NothingSent
    /\ \E secret_key_id \in {ThresholdKeyId, AbsentKeyId}, threshold \in Thresholds :
          payloadFile' = <<[command |-> "ThresholdPayload", secret_key_id |-> secret_key_id,
                            threshold |-> threshold, user_id |-> 0, weight |-> 0,
                            bytes |-> client_threshold_payload(secret_key_id, threshold)]>>
    /\ UNCHANGED <<dbVars, devVars, pc, rpc, response, chain, authIn, authOut, bastion, clientReport, provVars, concVars>>

(* main.rs 229-238 *)
FeroCommand_WeightPayload ==
    /\ NothingSent
    /\ \E secret_key_id \in {ThresholdKeyId, AbsentKeyId}, user_id \in {1, 2, StrangerKeyId},
          weight \in Weights :
          payloadFile' = <<[command |-> "WeightPayload", secret_key_id |-> secret_key_id,
                            threshold |-> 0, user_id |-> user_id, weight |-> weight,
                            bytes |-> client_weight_payload(secret_key_id, user_id, weight)]>>
    /\ UNCHANGED <<dbVars, devVars, pc, rpc, response, chain, authIn, authOut, bastion, clientReport, provVars, concVars>>

(* main.rs 218-228 and the handler of service.rs 83-97: the request names the
   secret by its key id only and carries user 1's signature over the file. *)
FeroCommand_Threshold ==
    /\ NothingSent
    /\ payloadFile # <<>>
    /\ payloadFile[1].command = "ThresholdPayload"
    /\ LET f == payloadFile[1]
           ident == Ident("", f.secret_key_id, <<Sig(1, f.bytes)>>)
       IN Started("Threshold", [seconds |-> 0, nanos |-> 0], ident, <<>>, "PGP",
                  f.threshold, 0, 0,
                  FeroService_set_secret_key_threshold(World, ident, f.threshold))

(* main.rs 239-249 and the handler of service.rs 124-139 *)
FeroCommand_Weight ==
    /\ NothingSent
    /\ payloadFile # <<>>
    /\ payloadFile[1].command = "WeightPayload"
    /\ LET f == payloadFile[1]
           ident == Ident("", f.secret_key_id, <<Sig(1, f.bytes)>>)
       IN Started("Weight", [seconds |-> 0, nanos |-> 0], ident, <<>>, "PGP",
                  0, f.user_id, f.weight,
                  FeroService_set_user_key_weight(World, ident, f.user_id, f.weight))

NextClient ==
    \/ FeroCommand_ThresholdPayload
    \/ FeroCommand_WeightPayload
    \/ FeroCommand_Threshold
    \/ FeroCommand_Weight
    \/ Fero_log_operation
    \/ Fero_reply

SpecClient == Init /\ [][NextClient]_vars

(* C23: the bytes written by the client's threshold-payload and
   weight-payload commands for a secret are the canonical payload the server
   rebuilds for the request on that secret (the secret's name, then the
   big-endian numbers), and a request carrying a quorum's signatures over the
   client's file is authorized. *)
C23_ClientPayloadIsCanonical ==
    /\ \A i \in 1 .. Len(payloadFile), j \in 1 .. Len(secrets) :
          LET f == payloadFile[i]
              named == Ident(secrets[j].name, f.secret_key_id, <<>>)
          IN secrets[j].key_id = Some(f.secret_key_id)
                => f.bytes = IF f.command = "ThresholdPayload"
                             THEN ThresholdPayload(named, f.threshold)
                             ELSE WeightPayload(named, f.user_id, f.weight)
    /\ (pc = "log" /\ rpc.ident.secretKeyId = ThresholdKeyId) => rpc.auth.ok

(* User 1, whose weight meets the threshold of "demo", signed the file the
   client wrote for raising that secret's threshold to 2; the request with
   that signature was refused and logged as a failure. *)
C23_ClientSignedRequestRefused ==
    /\ pc = "reply"
    /\ rpc.kind = "Threshold"
    /\ rpc.threshold = 2
    /\ rpc.ident = Ident("", ThresholdKeyId,
                         <<Sig(1, client_threshold_payload(ThresholdKeyId, 2))>>)
    /\ ~rpc.auth.ok
    /\ Last(fero_logs).result = "Failure"
    /\ \E j \in 1 .. Len(secrets) :
          /\ secrets[j].key_id = Some(ThresholdKeyId)
          /\ secrets[j].threshold = 1
          /\ client_threshold_payload(ThresholdKeyId, 2)
                # ThresholdPayload(Ident(secrets[j].name, ThresholdKeyId, <<>>), 2)

----------------------------------------------------------------------------
(* GetLogs on the signing server: service.rs 166-181 with
   FeroService::get_logs, service.rs 250-304.  The request carries min_index
   and nothing else; the handler reads the Store and answers. *)

MinIndexes == {0 - 1, 0, 2, MaxFeroLogs}

Fero_get_logs ==
    /\ pc = "idle"
    /\ chain = <<>>
    /\ \E min_index \in MinIndexes :
          /\ rpc' = [NoRpc EXCEPT !.kind = "GetLogs", !.min_index = min_index]
          /\ response' = [kind |-> "success", status |-> "OK",
                          payload |-> get_logs(fero_logs, hsm_logs, min_index)]
    /\ UNCHANGED <<dbVars, devVars, pc, clientVars>>

NextLogs ==
    \/ Fero_sign_payload
    \/ DeviceActivity
    \/ Fero_log_operation
    \/ Fero_reply
    \/ Fero_get_logs

SpecLogs == Init /\ [][NextLogs]_vars

(* The answer `out` holds the stored entries numbered above min_index, lowest
   number first, each as stored and with the mirrored HSM rows of its range. *)
IsLogsAbove(out, min_index) ==
    /\ Len(out) = Cardinality({k \in 1 .. Len(fero_logs) : fero_logs[k].id > min_index})
    /\ \A k \in 1 .. Len(fero_logs) :
          fero_logs[k].id > min_index => \E i \in 1 .. Len(out) : out[i].id = fero_logs[k].id
    /\ \A i \in 1 .. Len(out) : \A j \in 1 .. Len(out) : i < j => out[i].id < out[j].id
    /\ \A i \in 1 .. Len(out) :
          LET e == StoredEntry(out[i].id)
          IN /\ out[i].id > min_index
             /\ out[i].operation_type = e.request_type
             /\ out[i].result = e.result
             /\ out[i].timestamp = e.timestamp
             /\ out[i].hash = e.hash
             /\ {out[i].hsm_logs[n].id : n \in 1 .. Len(out[i].hsm_logs)}
                   = {r.hsm_index : r \in {x \in Range(hsm_logs) :
                         x.hsm_index > e.hsm_index_start /\ x.hsm_index <= e.hsm_index_end}}
             /\ \A n \in 1 .. Len(out[i].hsm_logs) : \A m \in 1 .. Len(out[i].hsm_logs) :
                   n < m => out[i].hsm_logs[n].id < out[i].hsm_logs[m].id

(* C24: GetLogs(min_index) carries no identification; it answers with exactly
   the stored Fero entries whose id is above min_index, in ascending id, each
   with the HSM entries of its index range, and it changes nothing: no Fero
   entry is appended, no HSM entry mirrored, no HSM call made. *)
C24_GetLogsReadsOnly ==
    [][(pc = "idle" /\ pc' = "idle")
         => /\ rpc'.kind = "GetLogs"
            /\ rpc'.ident = DefaultIdent
            /\ response'.kind = "success"
            /\ IsLogsAbove(response'.payload, rpc'.min_index)
            /\ UNCHANGED <<dbVars, devVars>>]_vars

(* GetLogs(2) was answered from a log of at least four entries: the answer
   leaves out the first two and carries HSM entries. *)
C24_Witness ==
    /\ pc = "idle"
    /\ rpc.kind = "GetLogs"
    /\ rpc.min_index = 2
    /\ Len(fero_logs) >= 4
    /\ Len(response.payload) = Len(fero_logs) - 2
    /\ response.payload[1].id = 3
    /\ \E i \in 1 .. Len(response.payload) : response.payload[i].hsm_logs # <<>>

----------------------------------------------------------------------------
(* The highest hsm_index mirrored in a table of hsm_logs rows, 0 for none. *)
HighestMirrored(hsmT) ==
    IF hsmT = <<>> THEN 0
    ELSE CHOOSE n \in {hsmT[i].hsm_index : i \in 1 .. Len(hsmT)} :
            \A i \in 1 .. Len(hsmT) : hsmT[i].hsm_index <= n

(* C25: the Fero entry written by log_operation has hsm_index_start equal to
   the highest mirrored hsm_index before the append and hsm_index_end equal to
   the highest mirrored hsm_index after it (the same number when nothing was
   drained), and the stored rows above hsm_index_start up to hsm_index_end are
   the entries drained from the device during the append. *)
C25_IndexRangeIsDrainedRange ==
    [][(pc = "log" /\ pc' = "reply")
         => LET e == Last(fero_logs')
                drained == {devLog[i].index : i \in 1 .. Len(devLog)}
                              \ {hsm_logs[i].hsm_index : i \in 1 .. Len(hsm_logs)}
            IN /\ e.hsm_index_start = HighestMirrored(hsm_logs)
               /\ e.hsm_index_end = HighestMirrored(hsm_logs')
               /\ {r.hsm_index : r \in {x \in Range(hsm_logs') :
                      x.hsm_index > e.hsm_index_start /\ x.hsm_index <= e.hsm_index_end}}
                     = drained]_vars

(* An operation was logged while the device had nothing new to drain: its
   entry starts at the highest mirrored index and ends at 0. *)
C25_EmptyDrainEndsAtZero ==
    /\ pc = "reply"
    /\ Len(fero_logs) > rpc.logLen
    /\ HighestMirrored(hsm_logs) > 0
    /\ Last(fero_logs).hsm_index_start = HighestMirrored(hsm_logs)
    /\ Last(fero_logs).hsm_index_end = 0
    /\ devLogIndex = 0
    /\ \A i \in 1 .. Len(devLog) : devLog[i].index <= HighestMirrored(hsm_logs)

----------------------------------------------------------------------------
(* provision, local.rs 263-345, a device command at a time.  provCall.pc is
   the statement the call has reached; provCall.created lists the ids of the
   authentication keys the call has created, in order, and ends with 0 once it
   has deleted the default key. *)

ProvAt(p, admin, app, result, created) ==
    provCall' = [pc |-> p, admin |-> admin, app |-> app, result |-> result,
                 created |-> created]

ProvGoes(p) == provCall' = [provCall EXCEPT !.pc = p]
ProvFails(e) == provCall' = [provCall EXCEPT !.pc = "failed", !.result = e]

ServerUntouched == UNCHANGED <<hsmSignCalls, pc, rpc, response, chain, authIn, authOut, bastion, payloadFile, clientReport, concVars>>

(* local.rs 269-288: the database file is created anew and migrated, and a
   session is opened with the default key and password. *)
provision_open ==
    /\ provCall.pc = "none"
    /\ \E admin \in AdminPasswords, app \in AppPasswords, sessionOk \in BOOLEAN :
          IF /\ sessionOk
             /\ DEFAULT_HSM_AUTHKEY_ID \in DOMAIN devAuthKeys
             /\ devAuthKeys[DEFAULT_HSM_AUTHKEY_ID] = DEFAULT_HSM_PASSWORD
          THEN ProvAt("reset", admin, app, "none", <<>>)
          ELSE ProvAt("failed", admin, app, "SessionError", <<>>)
    /\ secrets' = <<>>
    /\ users' = <<>>
    /\ user_secret_weights' = <<>>
    /\ fero_logs' = <<>>
    /\ hsm_logs' = <<>>
    /\ UNCHANGED <<devLog, devLogIndex, devKeys, devAuthKeys>>
    /\ ServerUntouched

(* local.rs 289-298: reset.  The device reboots with its factory contents and
   the connector reports Ok or NetError; any other error ends the call. *)
provision_reset ==
    /\ provCall.pc = "reset"
    /\ \E outcome \in {"Ok", "NetError", "DeviceError"} :
          IF outcome = "DeviceError"
          THEN /\ ProvFails(outcome)
               /\ UNCHANGED <<devLog, devLogIndex, devKeys, devAuthKeys>>
          ELSE /\ ProvGoes("reconnect")
               /\ devAuthKeys' = FactoryAuthKeys
               /\ devLog' = FreshWorld.devLog
               /\ devLogIndex' = FreshWorld.devLogIndex
               /\ devKeys' = FreshWorld.devKeys
    /\ UNCHANGED dbVars
    /\ ServerUntouched

(* local.rs 300-317: reconnect until the device answers (five seconds at
   most), open a session with the default key, read that key's object info. *)
provision_reconnect ==
    /\ provCall.pc = "reconnect"
    /\ \E ok \in BOOLEAN : IF ok THEN ProvGoes("create_admin") ELSE ProvFails("ConnectError")
    /\ UNCHANGED <<dbVars, devLog, devLogIndex, devKeys, devAuthKeys>>
    /\ ServerUntouched

(* A provision that deletes the default key before it creates the others. *)
provision_create_admin_late ==
    /\ provCall.pc = "create_admin"
    /\ devAuthKeys' = [id \in DOMAIN devAuthKeys \ {DEFAULT_HSM_AUTHKEY_ID} |-> devAuthKeys[id]]
    /\ provCall' = [provCall EXCEPT !.pc = "create_app", !.created = Append(@, 0)]
    /\ UNCHANGED <<dbVars, devLog, devLogIndex, devKeys>>
    /\ ServerUntouched

(* local.rs 318-326: create_authkey(2, "fero_admin", ...) *)
provision_create_admin ==
    /\ provCall.pc = "create_admin"
    /\ \E ok \in BOOLEAN :
          IF ok
          THEN /\ devAuthKeys' = [id \in DOMAIN devAuthKeys \cup {2} |->
                                     IF id = 2 THEN provCall.admin ELSE devAuthKeys[id]]
               /\ provCall' = [provCall EXCEPT !.pc = "create_app", !.created = Append(@, 2)]
          ELSE ProvFails("DeviceError") /\ UNCHANGED devAuthKeys
    /\ UNCHANGED <<dbVars, devLog, devLogIndex, devKeys>>
    /\ ServerUntouched

(* local.rs 327-340: create_authkey(3, "fero_app", ...) *)
provision_create_app ==
    /\ provCall.pc = "create_app"
    /\ \E ok \in BOOLEAN :
          IF ok
          THEN /\ devAuthKeys' = [id \in DOMAIN devAuthKeys \cup {3} |->
                                     IF id = 3 THEN provCall.app ELSE devAuthKeys[id]]
               /\ provCall' = [provCall EXCEPT !.pc = "delete_default", !.created = Append(@, 3)]
          ELSE ProvFails("DeviceError") /\ UNCHANGED devAuthKeys
    /\ UNCHANGED <<dbVars, devLog, devLogIndex, devKeys>>
    /\ ServerUntouched

(* local.rs 341-344: delete_object(1, AuthKey), then Ok. *)
provision_delete_default ==
    /\ provCall.pc = "delete_default"
    /\ \E ok \in BOOLEAN :
          IF ok
          THEN /\ devAuthKeys' = [id \in DOMAIN devAuthKeys \ {DEFAULT_HSM_AUTHKEY_ID} |->
                                     devAuthKeys[id]]
               /\ provCall' = [provCall EXCEPT !.pc = "done", !.result = "Ok",
                                               !.created = Append(@, 0)]
          ELSE ProvFails("DeviceError") /\ UNCHANGED devAuthKeys
    /\ UNCHANGED <<dbVars, devLog, devLogIndex, devKeys>>
    /\ ServerUntouched

(* Before provision: a factory-fresh device and no database, or a deployment
   that is provisioned once more (the device then holds keys 2 and 3 only). *)
InitProvision ==
    /\ \/ IsWorld(FreshWorld) /\ devAuthKeys = FactoryAuthKeys
       \/ Deployed /\ devAuthKeys = FactoryAuthKeys
       \/ Deployed /\ devAuthKeys = [id \in {2, 3} |-> IF id = 2 THEN "admin-a" ELSE "app-a"]
    /\ provCall = [pc |-> "none", admin |-> "", app |-> "", result |-> "none", created |-> <<>>]
    /\ hsmSignCalls = <<>>
    /\ pc = "idle"
    /\ rpc = NoRpc
    /\ response = NoResponse
    /\ chain = <<>>
    /\ authIn = <<>>
    /\ authOut = NoAuth
    /\ bastion = <<>>
    /\ payloadFile = <<>>
    /\ clientReport = "none"
    /\ cq = [t \in CqSlots |-> IdleThread]
    /\ inflight = {}
    /\ served = <<>>
    /\ logger = [p \in LogProcs |-> IdleLogger]

----------------------------------------------------------------------------
(* The client's get-logs command, fero-client/src/main.rs 250-270, from the
   reply on: what it reports. *)
get_logs_report(reply_logs) ==
    LET verified == FeroLogEntry_verify(client_entries(reply_logs))
    IN IF ~verified.ok THEN "Log verification failed!"
       ELSE IF reply_logs = <<>> THEN "panic: index out of bounds"
       ELSE IF reply_logs[1].id # 1
            THEN "Log verification OK, but initial log index was missing."
       ELSE "Log verification OK."

FeroCommand_GetLogs ==
    /\ pc = "idle"
    /\ rpc.kind = "GetLogs"
    /\ response.kind = "success"
    /\ clientReport' = get_logs_report(response.payload)
    /\ UNCHANGED <<dbVars, devVars, pc, rpc, response, chain, authIn, authOut, bastion, payloadFile, provVars, concVars>>

(* provision, then the first commands on the provisioned database and device. *)
FirstAddUser == provCall.pc = "done" /\ AddUser
FirstGetLogs == provCall.pc = "done" /\ Fero_get_logs
FirstGetLogsReport == provCall.pc = "done" /\ FeroCommand_GetLogs

NextProvision ==
    \/ provision_open
    \/ provision_reset
    \/ provision_reconnect
    \/ provision_create_admin
    \/ provision_create_app
    \/ provision_delete_default
    \/ FirstAddUser
    \/ FirstGetLogs
    \/ FirstGetLogsReport

SpecProvision == InitProvision /\ [][NextProvision]_vars

(* Nothing has been done since provision returned Ok. *)
JustProvisioned == provCall.pc = "done" /\ secrets = <<>> /\ users = <<>>

(* C26: after provision, before any other operation, GetLogs(0) answers a log
   that starts with the root entry, id 1, and the client's get-logs command
   reports that the verification is OK. *)
C26_FreshLogStartsAtRoot ==
    [][JustProvisioned
         => /\ (rpc'.kind = "GetLogs" /\ rpc'.min_index = 0 /\ response' # response)
                  => /\ response'.payload # <<>>
                     /\ response'.payload[1].id = 1
                     /\ response'.payload[1].ident = None
            /\ (rpc.kind = "GetLogs" /\ rpc.min_index = 0 /\ clientReport' # clientReport)
                  => clientReport' = "Log verification OK."]_vars

(* Right after provision the log table is empty: GetLogs(0) was answered with
   no entry and the client's get-logs command ended in a panic. *)
C26_FreshLogIsEmpty ==
    /\ JustProvisioned
    /\ fero_logs = <<>>
    /\ rpc.kind = "GetLogs"
    /\ rpc.min_index = 0
    /\ response.kind = "success"
    /\ response.payload = <<>>
    /\ clientReport = "panic: index out of bounds"

----------------------------------------------------------------------------
(* C28: provision creates the admin key (id 2), then the application key
   (id 3), and only then deletes the default key (id 1): the default key goes
   only when both creations have succeeded; a reset error other than NetError
   ends the call before any key is created; a call that has failed does
   nothing more; and when the call returns Ok keys 2 and 3 exist with the
   passwords given and key 1 does not. *)
C28_ProvisionKeyOrder ==
    [][/\ \E n \in 0 .. 3 : provCall'.created = SubSeq(<<2, 3, 0>>, 1, n)
       /\ (DEFAULT_HSM_AUTHKEY_ID \in DOMAIN devAuthKeys
             /\ DEFAULT_HSM_AUTHKEY_ID \notin DOMAIN devAuthKeys')
            => /\ provCall.created = <<2, 3>>
               /\ {2, 3} \subseteq DOMAIN devAuthKeys
               /\ devAuthKeys[2] = provCall.admin
               /\ devAuthKeys[3] = provCall.app
       /\ (provCall.pc = "reset" /\ provCall'.pc = "failed")
            => /\ provCall'.result = "DeviceError"
               /\ provCall'.created = <<>>
               /\ devAuthKeys' = devAuthKeys
       /\ provCall.pc = "failed" => UNCHANGED <<devAuthKeys, provCall>>
       /\ provCall'.pc = "done"
            => /\ provCall'.result = "Ok"
               /\ DOMAIN devAuthKeys' = {2, 3}
               /\ devAuthKeys'[2] = provCall'.admin
               /\ devAuthKeys'[3] = provCall'.app]_vars

(* provision returned Ok for the passwords "admin-b" and "app-b". *)
C28_Witness ==
    /\ provCall.pc = "done"
    /\ provCall.created = <<2, 3, 0>>
    /\ devAuthKeys = [id \in {2, 3} |-> IF id = 2 THEN "admin-b" ELSE "app-b"]
    /\ fero_logs = <<>>

(* The application key could not be created: the call failed with the admin
   key created and the default key still there. *)
C28_WitnessAppKeyFailed ==
    /\ provCall.pc = "failed"
    /\ provCall.created = <<2>>
    /\ DOMAIN devAuthKeys = {DEFAULT_HSM_AUTHKEY_ID, 2}

(* reset answered an error other than NetError: no key was created. *)
C28_WitnessResetFailed ==
    /\ provCall.pc = "failed"
    /\ provCall.result = "DeviceError"
    /\ provCall.created = <<>>
    /\ devAuthKeys = FactoryAuthKeys

----------------------------------------------------------------------------
(* C27: each local admin command that reaches the Store or the device
   (a secret imported, a user stored, a user's weight set) appends one Fero
   entry (after the root, on first use) that records the operation and
   whether it succeeded.  The admin commands are the steps taken while no RPC
   is being handled. *)
C27_AdminCommandsLogged ==
    [][(pc = "idle" /\ pc' = "idle"
          /\ <<dbVars, devLog, devKeys>>' # <<dbVars, devLog, devKeys>>)
         => /\ Len(fero_logs') = Len(fero_logs) + (IF fero_logs = <<>> THEN 2 ELSE 1)
            /\ Last(fero_logs').request_type \in {"AddSecret", "AddUser", "Weight"}
            /\ Last(fero_logs').result = "Success"
                  <=> <<secrets, users, user_secret_weights>>'
                         # <<secrets, users, user_secret_weights>>]_vars

(* User 1 carries weight 2 for "demo", set by the local command: no RPC is
   being handled and the log holds no entry of a weight operation. *)
C27_WeightSetUnlogged ==
    /\ pc = "idle"
    /\ StoredWeight(1, TheSecret("demo").id) = 2
    /\ \A i \in 1 .. Len(fero_logs) : fero_logs[i].request_type # "Weight"

----------------------------------------------------------------------------
(* The legacy server's SetThreshold handler, src/src/service.rs 45-51: the
   body is empty.  The request is taken, nothing is done and the sink is
   dropped without a reply. *)
LegacySetSecretKeyThreshold ==
    /\ rpc = NoRpc
    /\ \E signer \in {0, 1}, threshold \in Thresholds :
          LET sigs == IF signer = 0 THEN <<>> ELSE <<Sig(signer, <<AsU8(threshold)>>)>>
          IN rpc' = [NoRpc EXCEPT !.kind = "Threshold",
                                  !.ident = Ident("", ThresholdKeyId, sigs),
                                  !.threshold = threshold]
    /\ UNCHANGED <<dbVars, devVars, pc, response, clientVars>>

NextLegacyRpc ==
    \/ LegacySetUserKeyWeight
    \/ LegacySetSecretKeyThreshold

(* The legacy server takes one request; a handler that can run does run. *)
SpecLegacyRpc == InitLegacy /\ [][NextLegacyRpc]_vars /\ WF_vars(NextLegacyRpc)

(* The four RPCs of fero-server. *)
NextServe ==
    \/ Fero_sign_payload
    \/ Fero_set_secret_key_threshold
    \/ Fero_set_user_key_weight
    \/ Fero_log_operation
    \/ Fero_reply
    \/ Fero_get_logs

SpecServe == Init /\ [][NextServe]_vars

(* C29: every Sign, SetThreshold, SetWeight and GetLogs request the server
   has taken is eventually answered, with one response: the operation's
   success value or a failure with a status code.  Stated for the handlers of
   the legacy server. *)
C29_LegacyCallsComplete ==
    (rpc.kind \in {"Sign", "Threshold", "Weight", "GetLogs"})
       ~> (response.kind \in {"success", "fail"})

(* The legacy server took a SetThreshold request signed by user 1: nothing
   was answered and nothing was changed. *)
C29_LegacyThresholdUnanswered ==
    /\ rpc.kind = "Threshold"
    /\ rpc.ident.signatures # <<>>
    /\ rpc.threshold = 2
    /\ response = NoResponse
    /\ pc = "idle"
    /\ fero_logs = <<>>

(* The handlers of fero-server, whose log append does not fail: a handler at
   its log append or at its reply has its next step to take. *)
C29_ServerHandlerGoesOn ==
    /\ pc = "log" => ENABLED Fero_log_operation
    /\ pc = "reply" => ENABLED Fero_reply

(* The reply step hands the sink a success value or a failure with a status
   code, and the response of a GetLogs request is there when its handler
   returns. *)
C29_ServerAnswers ==
    [][/\ (pc = "reply" /\ pc' = "idle") => response'.kind \in {"success", "fail"}
       /\ (pc = "idle" /\ pc' = "idle") => (rpc'.kind = "GetLogs" /\ response'.kind = "success")]_vars

----------------------------------------------------------------------------
(* What the verification of test.rs 199-207 establishes for a returned
   signature: it was made with the private half of the secret's key on the
   device, over the artifact, and a PGP packet names the secret's key id as
   its issuer. *)
verifies_with_secret(sig, secret, artifact) ==
    /\ sig.key = AsU16(secret.hsm_id)
    /\ sig.over = artifact
    /\ sig.sig_type = "PGP" => sig.signer = secret.key_id

(* The reply of a Sign request carries a signature that verifies against the
   named secret's public key with the request's artifact, and with no other. *)
ExactSignature(sig, req) ==
    LET secret == TheSecret(req.ident.secretKeyName)
    IN /\ verifies_with_secret(sig, secret, req.payload)
       /\ \A other \in {SignPayload, OtherPayload} \ {req.payload} :
             ~verifies_with_secret(sig, secret, other)

(* The errors of the signing step that follows admission, service.rs 231-245:
   the secret's row is gone, a PGP signature is asked of a secret without PGP
   key id, or the device does not sign. *)
SigningStepErrors ==
    {"Secret key deleted while in use?", "Tried to use non-PGP key for PGP signature",
     "HsmReturnCode"}

(* C30: a Sign request that meets the quorum succeeds, and the signature it
   returns verifies against the named secret's public key with exactly the
   artifact of the request.  As stated, for every admitted request. *)
C30_QuorumSignsExactly ==
    [][(pc = "reply" /\ pc' = "idle" /\ rpc.kind = "Sign" /\ rpc.auth.ok)
         => /\ response'.kind = "success"
            /\ ExactSignature(response'.payload, rpc)]_vars

(* C30, amended: a Sign request that meets the quorum succeeds unless the
   signing step fails (a PGP signature asked of a secret without PGP key id,
   or the device does not sign), in which case it fails with that step's
   error; every signature a Sign request returns verifies against the named
   secret's public key with exactly the artifact of the request. *)
C30_QuorumSignsExactlyUnlessStepFails ==
    [][(pc = "reply" /\ pc' = "idle" /\ rpc.kind = "Sign")
         => /\ response'.kind = "success"
                 => rpc.auth.ok /\ ExactSignature(response'.payload, rpc)
            /\ (rpc.auth.ok /\ response'.kind = "fail")
                 => /\ rpc.result.err \in SigningStepErrors
                    /\ rpc.result.err = "Tried to use non-PGP key for PGP signature"
                         <=> (rpc.sig_type = "PGP"
                              /\ TheSecret(rpc.ident.secretKeyName).key_id = None)]_vars

(* A request signed by user 1 met the quorum of "demo" and was answered with a
   PGP signature by demo's key over the artifact. *)
C30_Witness ==
    /\ pc = "idle"
    /\ response.kind = "success"
    /\ Len(hsmSignCalls) > 0
    /\ NamedSecrets("demo") # {}
    /\ Len(fero_logs) > 0
    /\ Last(fero_logs).request_type = "Sign"
    /\ Last(fero_logs).result = "Success"
    /\ response.payload = [sig_type |-> "PGP", key |-> AsU16(TheSecret("demo").hsm_id),
                           over |-> SignPayload, signer |-> Some(ThresholdKeyId)]

(* A request that met the quorum of "demo" was refused: the device did not
   sign. *)
C30_AdmittedRequestFails ==
    /\ pc = "reply"
    /\ rpc.kind = "Sign"
    /\ rpc.ident.secretKeyName = "demo"
    /\ rpc.auth.ok
    /\ ~rpc.result.ok
    /\ rpc.result.err = "HsmReturnCode"

----------------------------------------------------------------------------
(* Thresholds of either sign: the i32 of the ThresholdRequest and of the
   add-secret command's --threshold (main.rs 128-130) is stored as it comes. *)

SignedThresholds == {0 - 1, 0, 1}

(* service.rs 83-97, with a threshold of either sign, signed by user 1 or
   unsigned. *)
Fero_set_secret_key_threshold_signed ==
    /\ CanStartAdmin
    /\ \E threshold \in SignedThresholds, signer \in {0, 1} :
          LET unsigned == Ident("demo", ThresholdKeyId, <<>>)
              ident == IF signer = 0 THEN unsigned
                       ELSE Ident("demo", ThresholdKeyId,
                                  <<Sig(signer, ThresholdPayload(unsigned, threshold))>>)
          IN Started("Threshold", Now(World), ident, <<>>, "PGP", threshold, 0, 0,
                     FeroService_set_secret_key_threshold(World, ident, threshold))

(* main.rs 255-264, local.rs 153-214: add-secret with the threshold given on
   the command line. *)
AddSecretSigned ==
    /\ pc = "idle"
    /\ chain = <<>>
    /\ NamedSecrets("neg") = {}
    /\ \E threshold \in SignedThresholds :
          SetWorld(import_secret(World, None, "neg", threshold, TRUE, 0).w)
    /\ UNCHANGED <<hsmSignCalls, pc, rpc, response, clientVars>>

NextSigned ==
    \/ Fero_set_secret_key_threshold_signed
    \/ AddSecretSigned
    \/ Fero_log_operation
    \/ Fero_reply

SpecSigned == InitAdmin /\ [][NextSigned]_vars

(* C31: in every reachable state every secret's threshold is at least 0:
   neither add-secret nor an admitted SetThreshold stores a negative one. *)
C31_ThresholdsNeverNegative ==
    \A s \in Range(secrets) : s.threshold >= 0

(* A SetThreshold request for -1, signed by the quorum of "demo", was answered
   with success and "demo" now carries the threshold -1. *)
C31_NegativeThresholdStored ==
    /\ pc = "idle"
    /\ response.kind = "success"
    /\ Len(fero_logs) > 0
    /\ Last(fero_logs).request_type = "Threshold"
    /\ Last(fero_logs).result = "Success"
    /\ TheSecret("demo").threshold = 0 - 1

(* add-secret with --threshold=-1 stored a secret with that threshold. *)
C31_NegativeThresholdEnrolled ==
    /\ NamedSecrets("neg") # {}
    /\ TheSecret("neg").threshold = 0 - 1
    /\ TheSecret("demo").threshold = 1

----------------------------------------------------------------------------
(* Requests in flight together.  create_server (main.rs 191-207) polls the
   calls with Environment::new(1): one completion-queue thread, on which a
   handler of service.rs 38-164 runs from its first statement to the spawn of
   its reply before the next call is taken. *)

(* A set of threads twice as large. *)
cq_workers_two == 1 .. 2

(* main.rs 199: the threads that take calls. *)
cq_workers == 1 .. COMPLETION_QUEUES

(* Four requests sent at the same time against "demo" (threshold 1, user 1
   with weight 1): a Sign signed by user 1, a SetThreshold to 2 and a
   SetWeight of user 1 to 0, both signed by user 1, and an unsigned Sign. *)
ConcurrentRequests ==
    LET named == Ident("demo", ThresholdKeyId, <<>>)
        req(kind, ident, threshold, weight) ==
            [NoRpc EXCEPT !.kind = kind, !.ident = ident, !.payload = SignPayload,
                          !.threshold = threshold, !.user_key_id = 1, !.weight = weight]
    IN {req("Sign", Ident("demo", ThresholdKeyId, <<Sig(1, SignPayload)>>), 0, 0),
        req("Threshold", Ident("demo", ThresholdKeyId, <<Sig(1, ThresholdPayload(named, 2))>>), 2, 0),
        req("Weight", Ident("demo", ThresholdKeyId, <<Sig(1, WeightPayload(named, 1, 0))>>), 0, 0),
        req("Sign", named, 0, 0)}

InitCq ==
    /\ \E seed \in DeploySeeds : IsWorld(AdminWorld(seed))
    /\ hsmSignCalls = <<>> /\ pc = "idle" /\ rpc = NoRpc /\ response = NoResponse
    /\ chain = <<>> /\ authIn = <<>> /\ authOut = NoAuth /\ bastion = <<>>
    /\ payloadFile = <<>> /\ clientReport = "none"
    /\ ProvisionedWith("admin-a", "app-a")
    /\ cq = [t \in CqSlots |-> IdleThread]
    /\ inflight = ConcurrentRequests
    /\ served = <<>>
    /\ logger = [p \in LogProcs |-> IdleLogger]

cqRest == <<pc, rpc, chain, authIn, authOut, bastion, payloadFile, clientReport, provVars, logger>>

(* What the operation of a request does to the world once the thread runs it:
   service.rs 44-49, 92-97, 133-139. *)
handler_operation(w, r) ==
    CASE r.kind = "Sign" -> FeroService_sign_payload(w, r.ident, r.payload, r.sig_type, TRUE)
      [] r.kind = "Threshold" -> FeroService_set_secret_key_threshold(w, r.ident, r.threshold)
      [] r.kind = "Weight" -> FeroService_set_user_key_weight(w, r.ident, r.user_key_id, r.weight)

(* A free thread takes a call and runs its handler up to the device: the
   authentication and, for SetThreshold and SetWeight, the update
   (service.rs 223-229, 189-221).  An admitted Sign goes on to the device. *)
CqTake ==
    \E t \in cq_workers, r \in inflight :
       LET auth == authenticate(secrets, users, user_secret_weights, r.ident,
                                IF r.kind = "Sign" THEN r.payload
                                ELSE IF r.kind = "Threshold" THEN ThresholdPayload(r.ident, r.threshold)
                                ELSE WeightPayload(r.ident, r.user_key_id, r.weight))
           out == handler_operation(World, r)
           device == r.kind = "Sign" /\ auth.ok
       IN /\ cq[t].pc = "idle"
          /\ inflight' = inflight \ {r}
          /\ cq' = [cq EXCEPT ![t] = [pc |-> IF device THEN "sign" ELSE "log",
                                      rpc |-> [r EXCEPT !.auth = auth,
                                                        !.result = IF device THEN Err("none")
                                                                   ELSE out.result]]]
          /\ SetWorld(IF device THEN World ELSE out.w)
          /\ UNCHANGED <<hsmSignCalls, response, served, cqRest>>

(* service.rs 231-245: the device call of an admitted Sign returns. *)
CqSign ==
    \E t \in cq_workers :
       LET r == cq[t].rpc
           out == sign_admitted(World, r.auth, r.payload, r.sig_type, TRUE)
       IN /\ cq[t].pc = "sign"
          /\ cq' = [cq EXCEPT ![t] = [pc |-> "log", rpc |-> [r EXCEPT !.result = out.result]]]
          /\ SetWorld(out.w)
          /\ hsmSignCalls' = hsmSignCalls \o out.calls
          /\ UNCHANGED <<inflight, response, served, cqRest>>

(* service.rs 51-63, 99-111, 141-153: the handler enters log_operation, whose
   first device call is the drain of logging.rs 93-98. *)
CqLogBegin ==
    \E t \in cq_workers :
       /\ cq[t].pc = "log"
       /\ cq' = [cq EXCEPT ![t].pc = "drain"]
       /\ UNCHANGED <<dbVars, devVars, inflight, response, served, cqRest>>

(* logging.rs 84-133: log_operation returns. *)
CqLogEnd ==
    \E t \in cq_workers :
       /\ cq[t].pc = "drain"
       /\ SetWorld(handler_log_operation(World, cq[t].rpc, 0))
       /\ served' = Append(served, cq[t].rpc)
       /\ cq' = [cq EXCEPT ![t].pc = "reply"]
       /\ UNCHANGED <<hsmSignCalls, inflight, response, cqRest>>

(* service.rs 65-80, 113-122, 155-164: the reply is spawned and the thread is
   free for the next call. *)
CqReply ==
    \E t \in cq_workers :
       /\ cq[t].pc = "reply"
       /\ response' = [kind |-> IF cq[t].rpc.result.ok THEN "success" ELSE "fail",
                       status |-> IF cq[t].rpc.result.ok THEN "OK"
                                  ELSE failure_status(cq[t].rpc.kind),
                       payload |-> <<>>]
       /\ cq' = [cq EXCEPT ![t] = IdleThread]
       /\ UNCHANGED <<dbVars, devVars, inflight, served, cqRest>>

NextCq ==
    \/ CqTake
    \/ CqSign
    \/ CqLogBegin
    \/ CqLogEnd
    \/ CqReply

SpecCq == InitCq /\ [][NextCq]_vars

(* The operations of `ops` executed one after the other from the world w: the
   world they leave and, for each, whether it was admitted and whether it
   succeeded. *)
RECURSIVE Serial(_, _)
Serial(w, ops) ==
    IF ops = <<>> THEN [w |-> w, admitted |-> <<>>, ok |-> <<>>]
    ELSE LET out == handler_operation(w, Head(ops))
             rest == Serial(out.w, Tail(ops))
         IN [w |-> rest.w, admitted |-> <<out.auth.ok>> \o rest.admitted,
             ok |-> <<out.result.ok>> \o rest.ok]

(* C32: the order of the Fero entries of requests in flight together is an
   order in which running the operations one after the other gives the
   admissions that were observed and, once every operation taken is logged,
   the Store that is observed. *)
C32_LogOrderSerializes ==
    LET serial == Serial(AdminWorld(11), served)
    IN /\ serial.admitted = [i \in 1 .. Len(served) |-> served[i].auth.ok]
       /\ serial.ok = [i \in 1 .. Len(served) |-> served[i].result.ok]
       /\ (\A t \in CqSlots : cq[t].pc \in {"idle", "reply"})
            => /\ secrets = serial.w.secrets
               /\ users = serial.w.users
               /\ user_secret_weights = serial.w.user_secret_weights
       /\ Len(fero_logs) = Len(AdminWorld(11).fero_logs) + Len(served)
       /\ \A i \in 1 .. Len(served) :
             LET e == fero_logs[Len(AdminWorld(11).fero_logs) + i]
             IN /\ e.request_type = served[i].kind
                /\ e.result = logged_result(served[i].result)

(* The signed Sign was sent together with the SetThreshold that raises the
   threshold to 2; the SetThreshold is logged first, then the Sign, which was
   refused. *)
C32_Witness ==
    /\ Len(served) >= 2
    /\ served[1].kind = "Threshold" /\ served[1].result.ok
    /\ served[2].kind = "Sign" /\ served[2].ident.signatures # <<>>
    /\ ~served[2].auth.ok
    /\ TheSecret("demo").threshold = 2
    /\ inflight # ConcurrentRequests

(* The threads inside a call of the shared session: the signing of hsm.rs
   38-57, or the drain and set_log_index of log_operation. *)
InDeviceCall == {t \in CqSlots : cq[t].pc \in {"sign", "drain"}}

(* C34: no two device calls of the shared session are in progress at the same
   time, whichever handlers are running. *)
C34_DeviceCallsNeverOverlap ==
    Cardinality(InDeviceCall) <= 1

(* The signing call of the signed Sign is in progress while the SetThreshold,
   the SetWeight and the unsigned Sign sent with it wait to be taken. *)
C34_Witness ==
    /\ \E t \in CqSlots : cq[t].pc = "sign" /\ cq[t].rpc.kind = "Sign"
    /\ Cardinality(inflight) = 3
    /\ \E r \in inflight : r.kind = "Threshold"

----------------------------------------------------------------------------
(* log_operation step by step: the server and a local administration command
   appending to the same database and device (logging.rs 84-133, called from
   service.rs and from local.rs 217-241) *)

MaxLoggerCalls == 1      \* calls of log_operation each process makes

(* The bytes each process draws for a root entry (models.rs 95-118). *)
LoggerSeed(p) == IF p = "server" THEN 11 ELSE 12

logRest == <<hsmSignCalls, pc, rpc, response, chain, authIn, authOut, bastion,
             payloadFile, clientReport, provVars, cq, inflight, served>>

InitLog ==
    /\ IsWorld(FreshWorld) \/ Deployed
    /\ IdleServer

(* The operation that precedes the call: the server has had the device sign
   (service.rs 184-248), the administration command has stored a user
   (local.rs 217-241). *)
LogEnter ==
    \E p \in LogProcs :
        /\ logger[p].pc = "idle"
        /\ logger[p].calls < MaxLoggerCalls
        /\ IF p = "server"
           THEN /\ DevLastIndex(devLog) < MaxHsmIndex
                /\ devLog' = DevAppend(devLog, CmdSignPkcs1, 1)
                /\ users' = users
                /\ logger' = [logger EXCEPT ![p] =
                                [IdleLogger EXCEPT !.pc = "read", !.request_type = "Sign",
                                                   !.calls = logger[p].calls + 1]]
           ELSE LET interior_result == insert_user_key(users, 2)
                IN /\ users' = IF interior_result.ok THEN interior_result.value ELSE users
                   /\ devLog' = devLog
                   /\ logger' = [logger EXCEPT ![p] =
                                   [IdleLogger EXCEPT !.pc = "read", !.request_type = "AddUser",
                                                      !.result = logged_result(interior_result),
                                                      !.calls = logger[p].calls + 1]]
        /\ UNCHANGED <<secrets, user_secret_weights, fero_logs, hsm_logs, devLogIndex,
                       devKeys, logRest>>

(* logging.rs 91: database.last_hsm_log_entry(). *)
LogRead ==
    \E p \in LogProcs :
        /\ logger[p].pc = "read"
        /\ LET last == last_hsm_log_entry(hsm_logs)
           IN logger' = [logger EXCEPT ![p].pc = "drain", ![p].last = last,
                            ![p].last_hsm_index =
                                IF last = None THEN 0 ELSE Unwrap(last).hsm_index]
        /\ UNCHANGED <<dbVars, devLog, devLogIndex, devKeys, logRest>>

(* logging.rs 93-98: hsm.logs_since(..) or hsm.logs(). *)
LogDrain ==
    \E p \in LogProcs :
        /\ logger[p].pc = "drain"
        /\ logger' = [logger EXCEPT ![p].pc = "mirror",
                         ![p].drained =
                             IF logger[p].last = None THEN logs(devLog)
                             ELSE logs_since(devLog,
                                             AsU16(Unwrap(logger[p].last).hsm_index))]
        /\ UNCHANGED <<dbVars, devLog, devLogIndex, devKeys, logRest>>

(* logging.rs 101-102: database.insert_hsm_logs(..). *)
LogMirror ==
    \E p \in LogProcs :
        /\ logger[p].pc = "mirror"
        /\ LET inserted == insert_hsm_logs(hsm_logs,
                               [i \in 1 .. Len(logger[p].drained) |->
                                   NewHsmLog(logger[p].drained[i])])
           IN /\ hsm_logs' = inserted.table
              /\ logger' = [logger EXCEPT ![p].pc = "setindex",
                               ![p].new_hsm_index =
                                   IF inserted.last_id = None THEN logger[p].last_hsm_index
                                   ELSE Unwrap(inserted.last_id)]
        /\ UNCHANGED <<secrets, users, user_secret_weights, fero_logs, devLog,
                       devLogIndex, devKeys, logRest>>

(* logging.rs 104: hsm.set_log_index(..). *)
LogSetIndex ==
    \E p \in LogProcs :
        /\ logger[p].pc = "setindex"
        /\ devLogIndex' = AsU16(logger[p].new_hsm_index)
        /\ logger' = [logger EXCEPT ![p].pc = "parent"]
        /\ UNCHANGED <<dbVars, devLog, devKeys, logRest>>

(* logging.rs 106: database.last_fero_log_entry(). *)
LogParent ==
    \E p \in LogProcs :
        /\ logger[p].pc = "parent"
        /\ LET parent_log == last_fero_log_entry(fero_logs)
           IN logger' = [logger EXCEPT ![p].pc = IF parent_log = None THEN "root"
                                                  ELSE "insert",
                                       ![p].parent = parent_log]
        /\ UNCHANGED <<dbVars, devLog, devLogIndex, devKeys, logRest>>

(* logging.rs 111-113: the root entry is inserted. *)
LogRoot ==
    \E p \in LogProcs :
        /\ logger[p].pc = "root"
        /\ fero_logs' = insert_fero_log(fero_logs, NewFeroLog_default(LoggerSeed(p)))
        /\ logger' = [logger EXCEPT ![p].pc = "reread"]
        /\ UNCHANGED <<secrets, users, user_secret_weights, hsm_logs, devLog,
                       devLogIndex, devKeys, logRest>>

(* logging.rs 114-117: the last entry is read again. *)
LogReread ==
    \E p \in LogProcs :
        /\ logger[p].pc = "reread"
        /\ logger' = [logger EXCEPT ![p].pc = "insert",
                                    ![p].parent = last_fero_log_entry(fero_logs)]
        /\ UNCHANGED <<dbVars, devLog, devLogIndex, devKeys, logRest>>

(* logging.rs 120-130: create_fero_log and database.insert_fero_log(..). *)
LogInsert ==
    \E p \in LogProcs :
        /\ logger[p].pc = "insert"
        /\ fero_logs' = insert_fero_log(fero_logs,
                            create_fero_log(logger[p].request_type, logger[p].result,
                                            logger[p].drained, logger[p].last_hsm_index,
                                            logger[p].new_hsm_index,
                                            Unwrap(logger[p].parent), None, Now(World)))
        /\ logger' = [logger EXCEPT ![p].pc = "done"]
        /\ UNCHANGED <<secrets, users, user_secret_weights, hsm_logs, devLog,
                       devLogIndex, devKeys, logRest>>

(* log_operation returns. *)
LogReturn ==
    \E p \in LogProcs :
        /\ logger[p].pc = "done"
        /\ logger' = [logger EXCEPT ![p].pc = "idle"]
        /\ UNCHANGED <<dbVars, devLog, devLogIndex, devKeys, logRest>>

NextLog ==
    \/ LogEnter
    \/ LogRead
    \/ LogDrain
    \/ LogMirror
    \/ LogSetIndex
    \/ LogParent
    \/ LogRoot
    \/ LogReread
    \/ LogInsert
    \/ LogReturn

SpecLog == InitLog /\ [][NextLog]_vars

(* The rows of hsm_logs that mirror device entry i. *)
MirrorsOf(i) == {r \in Range(hsm_logs) : r.hsm_index = i}

RootEntries == {e \in Range(fero_logs) : IsRootEntry(e)}

(* The processes whose last call has inserted its entry. *)
Appended == {p \in LogProcs : logger[p].calls > 0 /\ logger[p].pc \in {"done", "idle"}}

(* C33: under every interleaving of two log_operation calls no HSM entry is
   mirrored twice or skipped, exactly one root entry exists once an entry has
   been appended, and no two Fero entries are hashed over the same parent. *)
C33_AppendIsAtomic ==
    /\ \A i \in 1 .. DevLastIndex(devLog) : Cardinality(MirrorsOf(i)) <= 1
    /\ \A i \in 1 .. DevLastIndex(devLog) :
          (\E r \in Range(hsm_logs) : r.hsm_index >= i) => MirrorsOf(i) # {}
    /\ fero_logs # <<>> => Cardinality(RootEntries) = 1
    /\ \A p, q \in Appended : p # q => logger[p].parent # logger[q].parent

(* On a deployed server both calls have read the same last entry and each has
   inserted an entry hashed over it. *)
C33_TwoEntriesOverOneParent ==
    /\ Appended = LogProcs
    /\ logger["server"].parent = logger["admin"].parent
    /\ Cardinality(RootEntries) = 1
    /\ Len(fero_logs) >= 3

(* On a first use both calls have found fero_logs empty and each has inserted
   a root. *)
C33_TwoRoots == Cardinality(RootEntries) = 2

(* The device's boot entry is mirrored by both calls. *)
C33_MirroredTwice == Cardinality(MirrorsOf(1)) = 2

----------------------------------------------------------------------------
(* set_log_index, logging.rs 101-104 *)

(* C35: the index log_operation passes to set_log_index is the hsm_index of
   the last mirrored entry and is never greater than the highest hsm_index
   stored in hsm_logs, also when the append drained nothing. *)
C35_IndexIsLastMirrored ==
    [][(pc = "log" /\ pc' = "reply")
         => /\ devLogIndex' = HighestMirrored(hsm_logs')
            /\ devLogIndex' <= HighestMirrored(hsm_logs')]_vars

(* A handler has logged its operation while every device entry was mirrored
   already: the device was sent index 0, the last mirrored entry has a higher
   one. *)
C35_ZeroSentAfterEmptyDrain ==
    /\ pc = "reply"
    /\ Len(fero_logs) > rpc.logLen
    /\ devLogIndex = 0
    /\ HighestMirrored(hsm_logs) = DevLastIndex(devLog)
    /\ HighestMirrored(hsm_logs) > 0

(* When the calls do not overlap the index sent is never above the highest
   mirrored hsm_index. *)
C35_IndexNeverAboveMirror ==
    [][(pc = "log" /\ pc' = "reply")
         => devLogIndex' <= HighestMirrored(hsm_logs')]_vars

(* In every interleaving a call reaches set_log_index only when each entry it
   drained is a row of hsm_logs. *)
C35_MirrorCommittedBeforeSetIndex ==
    \A p \in LogProcs :
        logger[p].pc \in {"setindex", "parent", "root", "reread", "insert", "done"}
          => \A i \in 1 .. Len(logger[p].drained) :
                MirrorsOf(logger[p].drained[i].index) # {}

(* Two overlapping calls have mirrored the same device entry; the later one
   sends its rowid, which is above every mirrored hsm_index. *)
C35_IndexAboveMirror ==
    /\ devLogIndex > HighestMirrored(hsm_logs)
    /\ \E p \in LogProcs : logger[p].pc = "parent" /\ logger[p].new_hsm_index = devLogIndex

----------------------------------------------------------------------------
(* Requests that authenticate rejects, service.rs 189-248 *)

(* The request a step of a handler belongs to. *)
StepRequest == IF pc = "idle" THEN rpc' ELSE rpc

(* C36: a Sign, SetThreshold or SetWeight request that authenticate rejects
   changes no row of secrets, users or user_secret_weights; in the Store it
   only appends to fero_logs (its entry, after the root on a first use) and
   mirrors device entries in hsm_logs. *)
C36_RejectedChangesNoRow ==
    [][(/\ StepRequest.kind \in {"Sign", "Threshold", "Weight"}
        /\ ~StepRequest.auth.ok)
         => /\ UNCHANGED <<secrets, users, user_secret_weights>>
            /\ Len(fero_logs') >= Len(fero_logs)
            /\ SubSeq(fero_logs', 1, Len(fero_logs)) = fero_logs
            /\ Len(hsm_logs') >= Len(hsm_logs)
            /\ SubSeq(hsm_logs', 1, Len(hsm_logs)) = hsm_logs
            /\ \A i \in (Len(hsm_logs) + 1) .. Len(hsm_logs') :
                  \E j \in 1 .. Len(devLog) : hsm_logs'[i].hsm_index = devLog[j].index
            /\ (pc = "log" /\ pc' = "reply") =>
                  /\ Len(fero_logs') = IF fero_logs = <<>> THEN 2 ELSE Len(fero_logs) + 1
                  /\ Last(fero_logs').result = "Failure"
                  /\ Last(fero_logs').request_type = rpc.kind
            /\ (pc # "log") => UNCHANGED <<fero_logs, hsm_logs>>]_vars

(* An unsigned SetThreshold that names the key id of "demo" and another
   threshold than the stored one has been rejected and logged. *)
C36_Witness ==
    /\ pc = "reply"
    /\ rpc.kind = "Threshold"
    /\ ~rpc.auth.ok
    /\ rpc.ident.secretKeyId = ThresholdKeyId
    /\ NamedSecrets("demo") # {}
    /\ TheSecret("demo").threshold # rpc.threshold
    /\ Len(fero_logs) > rpc.logLen
    /\ Last(fero_logs).result = "Failure"

----------------------------------------------------------------------------
(* The client's get-logs command against a serving deployment: service.rs
   166-181 and 250-304, fero-client/src/main.rs 250-270 *)

(* The command is run once: the request is sent while nothing has been
   reported yet. *)
GetLogsSent == clientReport = "none" /\ Fero_get_logs

NextGetLogs ==
    \/ Fero_sign_payload
    \/ DeviceActivity
    \/ Fero_log_operation
    \/ Fero_reply
    \/ GetLogsSent
    \/ FeroCommand_GetLogs

SpecGetLogs == InitRpc /\ [][NextGetLogs]_vars

(* The step in which the command reports on the reply it holds. *)
GetLogsReports == clientReport = "none" /\ clientReport' # "none"

(* C37: for every k >= 0 the entries GetLogs(k) returns from the Store pass
   FeroLogEntry::verify, and the command reports that the verification is OK,
   with the warning exactly when the first returned id is not 1. *)
C37_SuffixVerifiesAndReports ==
    [][(GetLogsReports /\ rpc.min_index >= 0)
         => /\ response.payload = get_logs(fero_logs, hsm_logs, rpc.min_index)
            /\ FeroLogEntry_verify(client_entries(response.payload)).ok
            /\ response.payload # <<>>
            /\ clientReport' = IF response.payload[1].id # 1
                               THEN "Log verification OK, but initial log index was missing."
                               ELSE "Log verification OK."]_vars

(* GetLogs(k) with k the highest stored id: the reply holds no entry and the
   command has ended in a panic without a report. *)
C37_NothingAboveHighest ==
    /\ rpc.kind = "GetLogs"
    /\ fero_logs # <<>>
    /\ rpc.min_index >= Last(fero_logs).id
    /\ response.payload = <<>>
    /\ clientReport = "panic: index out of bounds"

(* The same for the replies that hold an entry. *)
C37_NonEmptySuffixVerifiesAndReports ==
    [][(GetLogsReports /\ rpc.min_index >= 0 /\ response.payload # <<>>)
         => /\ response.payload = get_logs(fero_logs, hsm_logs, rpc.min_index)
            /\ FeroLogEntry_verify(client_entries(response.payload)).ok
            /\ clientReport' = IF response.payload[1].id # 1
                               THEN "Log verification OK, but initial log index was missing."
                               ELSE "Log verification OK."]_vars

(* GetLogs(2) on a log of four entries: entries 3 and 4 were returned and the
   command warned that the initial index was missing. *)
C37_SuffixWarned ==
    /\ rpc.kind = "GetLogs"
    /\ rpc.min_index = 2
    /\ Len(response.payload) >= 2
    /\ response.payload[1].id = 3
    /\ clientReport = "Log verification OK, but initial log index was missing."

(* C38: the get-logs command ends normally for every min_index, also when the
   response holds no entries. *)
C38_GetLogsEndsNormally ==
    clientReport # "panic: index out of bounds"

(* The server has never logged anything: GetLogs(0) was answered with no
   entry and the command panicked at reply.get_logs()[0]. *)
C38_EmptyStorePanics ==
    /\ fero_logs = <<>>
    /\ rpc.kind = "GetLogs"
    /\ rpc.min_index = 0
    /\ response.kind = "success"
    /\ response.payload = <<>>
    /\ clientReport = "panic: index out of bounds"

----------------------------------------------------------------------------
(* The verifier keyring of authenticate: database/mod.rs 55-67 (a gpg context
   on a TempDir of the call) and src/src/database/mod.rs 44-65 (a gpg context
   on the keyring of the host) *)

(* What the default keyring of the host may hold. *)
HostKeyrings == {{}, {1}, UserKeyIds, SignerKeyIds}

(* A context that is left on the engine's default home directory. *)
call_keyring_host(host, imported) == host \cup imported

(* database/mod.rs 61-67: the context's home directory is the TempDir, so the
   keys it knows are the ones imported into it. *)
call_keyring(host, imported) == imported

(* database/mod.rs 42-67: the secret is looked up and, when it is found, the
   TempDir is created and the keys of the applicable users are imported; an
   Err of gpgme or of the file system ends the call (the TempDir is dropped). *)
AuthenticateEnter ==
    /\ IF authIn = <<>> THEN TRUE ELSE authIn[1].phase = "returned"
    /\ \E name \in {"demo", UnknownName}, sigs \in SeqsUpTo(AuthBlobs, 1),
          host \in HostKeyrings, gpgOk \in BOOLEAN :
          LET ident == Ident(name, 0, sigs)
              found == Pop(SelectSeq(secrets, LAMBDA s : s.name = name))
              call == [ident |-> ident, payload |-> SignPayload, host |-> host,
                       homedir |-> None, keyring |-> None, phase |-> "returned"]
          IN IF found = None
             THEN /\ authIn' = <<call>>
                  /\ authOut' = authenticate(secrets, users, user_secret_weights,
                                             ident, SignPayload)
             ELSE IF ~gpgOk
             THEN /\ authIn' = <<call>>
                  /\ authOut' = [NoAuth EXCEPT !.err = "VerifierError",
                                               !.secret_name = name]
             ELSE LET imported == applicable_users(users, user_secret_weights,
                                                   Unwrap(found))
                  IN /\ authIn' = <<[call EXCEPT !.homedir = Some(imported),
                                                 !.keyring = Some(call_keyring(host, imported)),
                                                 !.phase = "verifying"]>>
                     /\ authOut' = NoAuth
    /\ UNCHANGED <<dbVars, devVars, pc, rpc, response, chain, bastion, payloadFile,
                   clientReport, provVars, concVars>>

(* database/mod.rs 69-123: the signatures are verified against the context's
   keyring, the weights are summed and the call returns; the TempDir goes out
   of scope on every path. *)
AuthenticateReturn ==
    /\ authIn # <<>> /\ authIn[1].phase = "verifying"
    /\ LET call == authIn[1]
           secret == Unwrap(Pop(SelectSeq(secrets,
                                 LAMBDA s : s.name = call.ident.secretKeyName)))
           c == collect_ids(Unwrap(call.keyring), call.ident.signatures, call.payload, <<>>)
           weight == sum_weights(users, user_secret_weights, secret, c.inserted)
       IN /\ authOut' =
                IF c.err
                THEN [ok |-> FALSE, err |-> "VerifierError", weight |-> 0,
                      ids |-> hash_set(c.inserted),
                      secret_name |-> call.ident.secretKeyName, secret_key |-> None]
                ELSE IF meets_threshold(weight, secret.threshold)
                THEN [ok |-> TRUE, err |-> "none", weight |-> weight,
                      ids |-> hash_set(c.inserted),
                      secret_name |-> call.ident.secretKeyName,
                      secret_key |-> secret.key_id]
                ELSE [ok |-> FALSE, err |-> "InsufficientWeight", weight |-> weight,
                      ids |-> hash_set(c.inserted),
                      secret_name |-> call.ident.secretKeyName, secret_key |-> None]
          /\ authIn' = <<[call EXCEPT !.homedir = None, !.phase = "returned"]>>
    /\ UNCHANGED <<dbVars, devVars, pc, rpc, response, chain, bastion, payloadFile,
                   clientReport, provVars, concVars>>

NextKeyring ==
    \/ AuthenticateEnter
    \/ AuthenticateReturn

SpecKeyring == InitAuth /\ [][NextKeyring]_vars

(* The call that is verifying holds a keyring of exactly the keys of the users
   with a weight row for the named secret; a call that has returned has left
   no keyring directory; and the answer of a call in which gpgme did not fail
   is the one the Store and the request determine. *)
C39_PerCallKeyring ==
    authIn # <<>> =>
        LET call == authIn[1]
            found == Pop(SelectSeq(secrets, LAMBDA s : s.name = call.ident.secretKeyName))
        IN /\ call.phase = "verifying" =>
                /\ call.homedir # None
                /\ call.keyring = Some(applicable_users(users, user_secret_weights,
                                                        Unwrap(found)))
           /\ call.phase = "returned" =>
                /\ call.homedir = None
                /\ (call.keyring # None \/ found = None) =>
                      authOut = authenticate(secrets, users, user_secret_weights,
                                             call.ident, call.payload)

(* A call has returned an admission for a signature of user 1 while the
   host's own keyring holds the key of a stranger as well. *)
C39_PerCallWitness ==
    /\ authIn # <<>>
    /\ authIn[1].phase = "returned"
    /\ authIn[1].host = SignerKeyIds
    /\ authIn[1].keyring # None
    /\ authOut.ok
    /\ authOut.ids = {1}

(* src/src/database/mod.rs 29-96 on a host whose keyring holds any of
   HostKeyrings. *)
LegacyAuthenticateHostCall ==
    /\ authIn = <<>>
    /\ \E sigs \in SeqsUpTo(AuthBlobs, 1), keyring \in HostKeyrings :
          LET ident == Ident("", ThresholdKeyId, sigs)
          IN /\ authIn' = <<[ident |-> ident, payload |-> SignPayload, keyring |-> keyring]>>
             /\ authOut' = legacy_authenticate(secrets, users, user_secret_weights,
                                               keyring, ident, SignPayload)
    /\ UNCHANGED <<dbVars, devVars, pc, rpc, response, chain, bastion, payloadFile,
                   clientReport, provVars, concVars>>

NextLegacyHost == LegacyAuthenticateHostCall

SpecLegacyHost == InitLegacy /\ [][NextLegacyHost]_vars

(* C39: authenticate verifies against a keyring that holds only the keys of
   the users with a weight row for the secret, whatever earlier calls or the
   host left behind, so its outcome is a function of the Store contents and
   the request alone. *)
C39_KeyringCarriesNoState ==
    authIn # <<>> =>
        /\ authIn[1].keyring = applicable_users(users, user_secret_weights, secrets[1])
        /\ \A k \in HostKeyrings :
              authOut = legacy_authenticate(secrets, users, user_secret_weights, k,
                                            authIn[1].ident, authIn[1].payload)

(* User 1 carries the whole threshold and has signed the payload; on a host
   whose keyring is empty the call panics, on one that holds the users' keys
   the same request on the same Store is admitted. *)
C39_OutcomeDependsOnHost ==
    /\ authIn # <<>>
    /\ authIn[1].keyring = {}
    /\ authOut.err = "Panic"
    /\ secrets[1].threshold > 0
    /\ legacy_authenticate(secrets, users, user_secret_weights, UserKeyIds,
                           authIn[1].ident, authIn[1].payload).ok

----------------------------------------------------------------------------
(* HsmLogEntry::to_bytes and HsmLogEntry::from_bytes, fero-proto/src/log.rs
   100-144 *)

(* Cursor::read_u16::<BigEndian> and read_u32::<BigEndian> at byte `at`
   (counted from 1); the model keeps every systick below 2^31. *)
read_u16(bytes, at) == bytes[at] * 256 + bytes[at + 1]
read_u32(bytes, at) ==
    ((bytes[at] * 256 + bytes[at + 1]) * 256 + bytes[at + 2]) * 256 + bytes[at + 3]

(* HsmLogEntry::from_bytes, log.rs 117-144: the fixed fields, then
   read_exact of 16 bytes; a read past the end is an Err, bytes after the
   32nd are not read. *)
HsmLogEntry_from_bytes(bytes) ==
    IF Len(bytes) < 32 THEN Err("UnexpectedEof")
    ELSE Ok([hsm_index |-> read_u16(bytes, 1), command |-> bytes[3],
             data_length |-> read_u16(bytes, 4), session_key |-> read_u16(bytes, 6),
             target_key |-> read_u16(bytes, 8), second_key |-> read_u16(bytes, 10),
             result |-> bytes[12], systick |-> read_u32(bytes, 13),
             hash |-> SubSeq(bytes, 17, 32)])

(* The entries the conversions are tried on: the ends and the byte borders of
   every field's range, hashes of 16 bytes and of one byte less and more. *)
HashLens == {15, 16, 17}
ByteEntries ==
    [hsm_index : {0, 1, 256, 65535}, command : {0, CmdSignPkcs1, 255},
     data_length : {0, 258}, session_key : {SessionKey, 65535},
     target_key : {0, 513}, second_key : {1, 65535}, result : {0, 255},
     systick : {0, 255, 16909060, 2147483647},
     hash : {[i \in 1 .. n |-> (i * k) % 256] : n \in HashLens, k \in {0, 17}}]

InitBytes ==
    /\ IsWorld(FreshWorld)
    /\ hsmSignCalls = <<>> /\ pc = "idle" /\ rpc = NoRpc /\ response = NoResponse
    /\ \E e \in ByteEntries : chain = <<e>>
    /\ authIn = <<>> /\ authOut = NoAuth /\ bastion = <<>>
    /\ payloadFile = <<>> /\ clientReport = "none"
    /\ ProvisionedWith("admin-a", "app-a")
    /\ cq = [t \in CqSlots |-> IdleThread] /\ inflight = {} /\ served = <<>>
    /\ logger = [p \in LogProcs |-> IdleLogger]

(* e.to_bytes() *)
ToBytesCall ==
    /\ Len(chain) = 1 /\ payloadFile = <<>>
    /\ payloadFile' = HsmLogEntry_to_bytes(chain[1])
    /\ UNCHANGED <<dbVars, devVars, pc, rpc, response, chain, authIn, authOut, bastion,
                   clientReport, provVars, concVars>>

(* HsmLogEntry::from_bytes(..) of those bytes *)
FromBytesCall ==
    /\ Len(chain) = 1 /\ payloadFile # <<>>
    /\ LET decoded == HsmLogEntry_from_bytes(payloadFile)
       IN IF decoded.ok
          THEN chain' = Append(chain, decoded.value) /\ clientReport' = "Ok"
          ELSE chain' = Append(chain, chain[1]) /\ clientReport' = decoded.err
    /\ UNCHANGED <<dbVars, devVars, pc, rpc, response, authIn, authOut, bastion,
                   payloadFile, provVars, concVars>>

NextBytes ==
    \/ ToBytesCall
    \/ FromBytesCall

SpecBytes == InitBytes /\ [][NextBytes]_vars

(* C40: for an entry whose hash is 16 bytes long, to_bytes gives 32 bytes
   that are, big-endian, u16 index, u8 command, u16 data_length, u16
   session_key, u16 target_key, u16 second_key, u8 result, u32 systick and the
   hash, and from_bytes of them is Ok of the same entry. *)
C40_BytesRoundTrip ==
    (Len(chain[1].hash) = 16) =>
        LET e == chain[1]
            b == payloadFile
        IN /\ b # <<>> =>
                /\ Len(b) = 32
                /\ b[1] = e.hsm_index \div 256 /\ b[2] = e.hsm_index % 256
                /\ b[3] = e.command
                /\ b[4] = e.data_length \div 256 /\ b[5] = e.data_length % 256
                /\ b[6] = e.session_key \div 256 /\ b[7] = e.session_key % 256
                /\ b[8] = e.target_key \div 256 /\ b[9] = e.target_key % 256
                /\ b[10] = e.second_key \div 256 /\ b[11] = e.second_key % 256
                /\ b[12] = e.result
                /\ b[13] = e.systick \div 16777216
                /\ b[14] = (e.systick \div 65536) % 256
                /\ b[15] = (e.systick \div 256) % 256
                /\ b[16] = e.systick % 256
                /\ \A i \in 1 .. 16 : b[16 + i] = e.hash[i]
           /\ Len(chain) = 2 => clientReport = "Ok" /\ chain[2] = e

(* An entry with index 256, second key 65535, systick 0x01020304 and a
   16-byte hash has gone through both conversions. *)
C40_Witness ==
    /\ Len(chain) = 2
    /\ clientReport = "Ok"
    /\ chain[1].hsm_index = 256
    /\ chain[1].second_key = 65535
    /\ chain[1].target_key = 513
    /\ chain[1].systick = 16909060
    /\ Len(chain[1].hash) = 16
    /\ chain[1].hash[16] = 16

(* A hash of 17 bytes comes back cut to 16, one of 15 bytes gives an Err. *)
C40_OtherLengthsDiffer ==
    (Len(chain) = 2 /\ Len(chain[1].hash) # 16)
        => \/ clientReport = "UnexpectedEof"
           \/ chain[2] # chain[1]

====
